----------------------- MODULE LinuxRWLockMSQueueProofs -----------------------
(***************************************************************************)
(* Proofs about LinuxRWLock, for every finite set of threads, every bias   *)
(* and every number of attempts, and, in its second half, about MSQueue.   *)
(***************************************************************************)
EXTENDS LinuxRWLock, MSQueue, C11MemoryProofs, FiniteSetTheorems, WellFoundedInduction

ReadHeld == {"reader", "readUnlock"}
WriteHeld == {"writer", "writeUnlock"}

(* Where a thread has taken 1, or Bias, from the counter.                  *)
TookOne == ReadHeld \cup {"readUndo", "tryReadUndo"}
TookBias == WriteHeld \cup {"writeUndo", "tryWriteUndo"}
TookNone == {"idle", "readSpin", "readRetry", "writeSpin", "writeRetry"}
Label == TookOne \cup TookBias \cup TookNone

Counter == Val(Lock, Newest(Lock))
Carried == hist[Lock][Newest(Lock)].view

(* The inductive invariant.  Types: of the memory and of the locals.       *)
Types ==
  /\ MemType(Loc, Int)
  /\ pc \in [Thread -> Label]
  /\ attempts \in 0..MaxAttempts

(* Chain: the counter is only changed by read-modify-writes, one after     *)
(* the other; all locations are written in the order of their histories.   *)
Chain ==
  /\ \A x \in Loc : Linear(x)
  /\ \A k \in 2..Newest(Lock) : hist[Lock][k].kind = "rmw"

Lowest == -Cardinality(Thread) * Bias
Values == \A i \in 1..Newest(Lock) : Val(Lock, i) \in Lowest..Bias

(* Account: what the counter lacks is what the threads have taken.         *)
Account == Counter = Bias - Cardinality(At(TookOne)) - Bias * Cardinality(At(TookBias))

(* Exclusion: writers are alone.                                           *)
Exclusion ==
  /\ \A w \in At(WriteHeld) : At(WriteHeld) = {w} /\ At(ReadHeld) = {}
  /\ Cardinality(At(ReadHeld)) <= Bias

(* Handover: a holder has seen every write of the datum, a writer every    *)
(* read of it as well; what is not in the hands of a holder is in the view *)
(* of the newest message of the counter.                                   *)
Knows(t, x) == \A k \in 1..Newest(x) : <<x, k>> \in cur[t]
Carries(x) == \A k \in 2..Newest(x) : <<x, k>> \in Carried
Handover ==
  /\ \A t \in Thread, x \in Loc : <<x, 1>> \in cur[t]
  /\ \A t \in Thread : Knows(t, ReadBy(t))
  /\ \A t \in At(ReadHeld) \cup At(WriteHeld) : Knows(t, Shared)
  /\ \A t \in At(WriteHeld), u \in Thread : Knows(t, ReadBy(u))
  /\ At(WriteHeld) = {} => Carries(Shared)
  /\ \A u \in Thread : pc[u] # "readUnlock" => Carries(ReadBy(u))

IInv == Types /\ Chain /\ Values /\ Account /\ Exclusion /\ Handover

-----------------------------------------------------------------------------
(* Arithmetic and counting.                                                *)

(* What n threads take at most leaves the counter in its range.            *)
LEMMA CounterRange ==
  ASSUME NEW R \in SUBSET Thread, NEW W \in SUBSET Thread, R \cap W = {}
  PROVE  Bias - Cardinality(R) - Bias * Cardinality(W) \in Lowest..Bias
<1> DEFINE r == Cardinality(R)
           w == Cardinality(W)
           n == Cardinality(Thread)
<1>1. IsFiniteSet(Thread) /\ Bias \in Nat /\ Bias >= 1
  BY RWLockAssumption
<1>2. IsFiniteSet(R) /\ IsFiniteSet(W) /\ r \in Nat /\ w \in Nat /\ n \in Nat
  BY <1>1, FS_Subset, FS_CardinalityType
<1>3. r + w <= n
  <2>1. Cardinality(R \cup W) = r + w - Cardinality(R \cap W)
    BY <1>2, FS_Union
  <2>2. Cardinality(R \cup W) <= n
    BY <1>1, FS_Subset
  <2>3. Cardinality(R \cap W) = 0
    BY FS_EmptySet
  <2> QED
    BY <1>2, <2>1, <2>2, <2>3
<1> HIDE DEF r, w, n
<1>4. Bias * w \in Nat /\ Bias * n \in Nat /\ Bias * (n - w) = Bias * n - Bias * w
  BY <1>1, <1>2
<1>5. Bias * (n - w) >= n - w
  <2>1. ASSUME NEW m \in Nat PROVE Bias * m >= m
    BY <1>1, <2>1
  <2> QED
    BY <1>2, <1>3, <2>1
<1>6. Bias - r - Bias * w \in Int /\ Bias - r - Bias * w <= Bias /\ Bias - r - Bias * w >= -(n * Bias)
  <2>1. n * Bias = Bias * n
    BY <1>1, <1>2
  <2> QED
    BY <1>1, <1>2, <1>3, <1>4, <1>5, <2>1
<1> QED
  BY <1>1, <1>2, <1>6 DEF Lowest, r, w, n

(* A counter above 0: nobody has taken Bias, and fewer than Bias one.      *)
LEMMA PositiveCounter ==
  ASSUME NEW r \in Nat, NEW w \in Nat, Bias - r - Bias * w > 0
  PROVE  w = 0 /\ r < Bias
<1>1. Bias \in Nat /\ Bias >= 1
  BY RWLockAssumption
<1>2. Bias * w \in Nat
  BY <1>1
<1>3. w >= 1 => Bias * w >= Bias
  BY <1>1
<1>4. w = 0 => Bias * w = 0
  BY <1>1
<1> QED
  BY <1>1, <1>2, <1>3, <1>4

(* How a step of t changes the number of threads at a set of labels.       *)
LEMMA Counting ==
  ASSUME Types, NEW t \in Thread, NEW to \in Label, pc' = [pc EXCEPT ![t] = to], NEW S
  PROVE  /\ IsFiniteSet(At(S)) /\ Cardinality(At(S)) \in Nat
         /\ (to \in S <=> pc[t] \in S) => At(S)' = At(S)
         /\ to \in S /\ pc[t] \notin S =>
              At(S)' = At(S) \cup {t} /\ Cardinality(At(S)') = Cardinality(At(S)) + 1
         /\ to \notin S /\ pc[t] \in S =>
              At(S)' = At(S) \ {t} /\ Cardinality(At(S)') = Cardinality(At(S)) - 1
<1>1. At(S) \in SUBSET Thread
  BY DEF At
<1>2. IsFiniteSet(At(S)) /\ Cardinality(At(S)) \in Nat
  BY <1>1, RWLockAssumption, FS_Subset, FS_CardinalityType
<1>3. (to \in S <=> pc[t] \in S) => At(S)' = At(S)
  BY DEF At, Types
<1>4. ASSUME to \in S, pc[t] \notin S
      PROVE  At(S)' = At(S) \cup {t} /\ Cardinality(At(S)') = Cardinality(At(S)) + 1
  <2>1. At(S)' = At(S) \cup {t} /\ t \notin At(S)
    BY <1>4 DEF At, Types
  <2> QED
    BY <1>2, <2>1, FS_AddElement
<1>5. ASSUME to \notin S, pc[t] \in S
      PROVE  At(S)' = At(S) \ {t} /\ Cardinality(At(S)') = Cardinality(At(S)) - 1
  <2>1. At(S)' = At(S) \ {t} /\ t \in At(S)
    BY <1>5 DEF At, Types
  <2> QED
    BY <1>2, <2>1, FS_RemoveElement
<1> QED
  BY <1>2, <1>3, <1>4, <1>5

(* The classes of labels are disjoint.                                     *)
LEMMA Labels ==
  /\ \A l \in TookNone : l \in Label /\ l \notin TookOne /\ l \notin TookBias
  /\ \A l \in TookOne : l \in Label /\ l \notin TookBias
  /\ \A l \in TookBias : l \in Label /\ l \notin TookOne
  /\ ReadHeld \subseteq TookOne /\ WriteHeld \subseteq TookBias
BY DEF TookNone, TookOne, TookBias, ReadHeld, WriteHeld, Label

(* The locations are different.                                            *)
LEMMA Locations ==
  /\ Lock \in Loc /\ Shared \in Loc /\ Lock # Shared
  /\ \A t \in Thread :
       /\ ReadBy(t) \in Loc /\ ReadBy(t) # Lock /\ ReadBy(t) # Shared
       /\ \A u \in Thread : ReadBy(t) = ReadBy(u) => t = u
<1>1. Len(Lock) = 1 /\ Len(Shared) = 1 /\ Lock[1] = "lock" /\ Shared[1] = "shareddata"
  BY DEF Lock, Shared
<1>2. \A t : Len(ReadBy(t)) = 2 /\ ReadBy(t)[2] = t
  BY DEF ReadBy
<1> QED
  BY <1>1, <1>2 DEF Loc

(* Lengths of the histories are positive numbers.                          *)
LEMMA Lengths ==
  ASSUME Types, NEW x \in Loc
  PROVE  Newest(x) \in Nat /\ Newest(x) >= 1 /\ hist[x] \in Seq(Messages(Loc, Int))
BY LenProperties DEF Types, MemType, Newest

-----------------------------------------------------------------------------
THEOREM InitInvariant ==
  ASSUME Init
  PROVE  IInv
<1> DEFINE m(v) == Message(1, v, {}, "store")
<1>1. /\ hist = [x \in Loc |-> <<m(IF x = Lock THEN Bias ELSE 0)>>]
      /\ cur = [t \in Thread |-> {<<x, 1>> : x \in Loc}]
      /\ acq = [t \in Thread |-> {}]
      /\ rel = [t \in Thread |-> {}]
      /\ sc = {}
      /\ pc = [t \in Thread |-> "idle"]
      /\ attempts = 0
  BY DEF Init, MemInit
<1>2. \A v \in Int : m(v) \in Messages(Loc, Int) /\ m(v).id = 1 /\ m(v).val = v
  BY DEF Message, Messages
<1>3. Bias \in Nat /\ Bias >= 1 /\ MaxAttempts \in Nat
  BY RWLockAssumption
<1> HIDE DEF m
<1>4. \A x \in Loc : /\ hist[x] = <<m(IF x = Lock THEN Bias ELSE 0)>>
                     /\ hist[x] \in Seq(Messages(Loc, Int))
                     /\ Len(hist[x]) = 1
                     /\ hist[x][1].id = 1
  BY <1>1, <1>2, <1>3
<1>5. Types
  BY <1>1, <1>3, <1>4 DEF Types, MemType, Events, Label, TookNone
<1>6. Newest(Lock) = 1 /\ Val(Lock, 1) = Bias
  BY <1>2, <1>3, <1>4, Locations DEF Newest, Val
<1>7. Chain
  BY <1>4, <1>6 DEF Chain, Linear
<1>8. /\ At(TookOne) = {} /\ At(TookBias) = {} /\ At(ReadHeld) = {} /\ At(WriteHeld) = {}
      /\ Cardinality({}) = 0
  BY <1>1, FS_EmptySet DEF At, TookOne, TookBias, ReadHeld, WriteHeld
<1>9. Account /\ Exclusion
  BY <1>3, <1>6, <1>8 DEF Account, Counter, Exclusion
<1>10. Values
  BY <1>3, <1>6, <1>8, CounterRange DEF Values
<1>11. Handover
  <2>1. \A x \in Loc : Newest(x) = 1
    BY <1>4 DEF Newest
  <2> QED
    BY <1>1, <1>8, <2>1, Locations DEF Handover, Knows, Carries
<1> QED
  BY <1>5, <1>7, <1>9, <1>10, <1>11 DEF IInv

-----------------------------------------------------------------------------
(* A read-modify-write of the counter reads the newest message.            *)
LEMMA CounterStep ==
  ASSUME IInv, NEW t \in Thread, NEW i, NEW n \in Int, NEW ord,
         ReadModifyWrite(t, Lock, i, Val(Lock, i) + n, ord)
  PROVE  /\ i = Newest(Lock)
         /\ Counter \in Int
         /\ MemType(Loc, Int)'
         /\ Chain'
         /\ Newest(Lock)' = Newest(Lock) + 1
         /\ Counter' = Counter + n
         /\ \A k \in 1..Newest(Lock) : Val(Lock, k)' = Val(Lock, k)
         /\ \A x \in Loc \ {Lock} : hist'[x] = hist[x]
         /\ \A u \in Thread : cur[u] \subseteq cur'[u]
         /\ Carried \subseteq Carried'
         /\ ord \in Acquiring => Carried \subseteq cur'[t]
         /\ ord \in Releasing => cur[t] \subseteq Carried'
<1> DEFINE N == Newest(Lock)
<1>1. /\ N \in Nat /\ N >= 1 /\ hist[Lock] \in Seq(Messages(Loc, Int)) /\ Lock \in Loc
      /\ MemType(Loc, Int)
  BY Lengths, Locations DEF IInv, Types
<1>2. i = N
  <2>1. i \in 1..N /\ (i < N => hist[Lock][i + 1].kind # "rmw")
    BY DEF ReadModifyWrite, Extendable, Readable
  <2> QED
    BY <1>1, <2>1 DEF IInv, Chain
<1>3. Counter \in Int
  <2>1. hist[Lock][N] \in Messages(Loc, Int)
    BY <1>1, ElementOfSeq DEF Newest
  <2> QED
    BY <2>1 DEF Messages, Counter, Val
<1>4. ReadModifyWrite(t, Lock, N, Counter + n, ord) /\ Counter + n \in Int
  BY <1>2, <1>3 DEF Counter
<1>5. /\ Appended(Loc, Lock)
      /\ hist'[Lock][N + 1].id = N + 1
      /\ hist'[Lock][N + 1].val = Counter + n
      /\ hist'[Lock][N + 1].view = Continued(t, Lock, N, ord)
      /\ hist'[Lock][N + 1].kind = "rmw"
  BY <1>1, <1>4, ReadModifyWriteAtEnd
<1>6. MemType(Loc, Int)'
  BY <1>1, <1>4, ReadModifyWriteType
<1>7. /\ Newest(Lock)' = N + 1
      /\ \A k \in 1..N : hist'[Lock][k] = hist[Lock][k]
      /\ \A x \in Loc \ {Lock} : hist'[x] = hist[x]
  BY <1>5 DEF Appended, Newest
<1>8. Chain'
  <2>1. \A x \in Loc : Linear(x)'
    BY <1>1, <1>5, AppendedLinear DEF IInv, Chain
  <2>2. \A k \in 2..(N + 1) : hist'[Lock][k].kind = "rmw"
    BY <1>1, <1>5, <1>7 DEF IInv, Chain
  <2> QED
    BY <1>7, <2>1, <2>2 DEF Chain
<1>9. cur' = [cur EXCEPT ![t] = Observe(t, Lock, N, ord) \cup {NextEvent(Lock)}]
  BY <1>4 DEF ReadModifyWrite
<1>10. \A u \in Thread : cur[u] \subseteq cur'[u]
  BY <1>1, <1>9 DEF Observe, MemType
<1>11. ord \in Acquiring => Carried \subseteq cur'[t]
  BY <1>1, <1>9 DEF Observe, MemType, Carried
<1>12. Carried' = Continued(t, Lock, N, ord) /\ Counter' = Counter + n
  BY <1>5, <1>7 DEF Carried, Counter, Val
<1>13. Carried \subseteq Carried' /\ (ord \in Releasing => cur[t] \subseteq Carried')
  BY <1>12 DEF Continued, Carried, Observe
<1> QED
  BY <1>2, <1>3, <1>6, <1>7, <1>8, <1>10, <1>11, <1>12, <1>13 DEF Val

(* Taking the counter hands over what its newest message carries to a new  *)
(* holder; giving back adds what the old holder has seen.                  *)
LEMMA HandoverStep ==
  ASSUME IInv, NEW t \in Thread, NEW to \in Label, pc' = [pc EXCEPT ![t] = to],
         \A x \in Loc \ {Lock} : hist'[x] = hist[x],
         \A u \in Thread : cur[u] \subseteq cur'[u],
         Carried \subseteq Carried',
         to # "readUnlock",
         to \in ReadHeld \cup WriteHeld =>
           At(WriteHeld) = {} /\ Carried \subseteq cur'[t],
         to \in WriteHeld => At(ReadHeld) = {},
         pc[t] \in ReadHeld \cup WriteHeld => cur[t] \subseteq Carried'
  PROVE  Handover'
<1>1. \A x \in Loc \ {Lock} : Newest(x)' = Newest(x) /\ Newest(x) \in Nat
  BY Lengths DEF Newest, IInv
<1>2. \A x \in Loc \ {Lock}, u \in Thread : Knows(u, x) => Knows(u, x)'
  BY <1>1 DEF Knows
<1>3. \A x \in Loc \ {Lock} : Carries(x) => Carries(x)'
  BY <1>1 DEF Carries
<1>4. \A x \in Loc \ {Lock} : Carries(x) /\ Carried \subseteq cur'[t] => Knows(t, x)'
  <2> SUFFICES ASSUME NEW x \in Loc \ {Lock}, Carries(x), Carried \subseteq cur'[t],
                      NEW k \in 1..Newest(x)
               PROVE  <<x, k>> \in cur'[t]
    BY <1>1 DEF Knows
  <2>1. k = 1 \/ k \in 2..Newest(x)
    BY <1>1
  <2>2. <<x, 1>> \in cur'[t]
    BY DEF IInv, Handover
  <2> QED
    BY <2>1, <2>2 DEF Carries
<1>5. \A x \in Loc \ {Lock} : Knows(t, x) /\ cur[t] \subseteq Carried' => Carries(x)'
  BY <1>1 DEF Knows, Carries
<1>6. Shared \in Loc \ {Lock} /\ \A u \in Thread : ReadBy(u) \in Loc \ {Lock}
  BY Locations
<1>7. \A u \in Thread : pc'[u] = IF u = t THEN to ELSE pc[u]
  BY DEF IInv, Types
<1>8. \A u \in Thread, x \in Loc : <<x, 1>> \in cur'[u]
  BY DEF IInv, Handover
<1>9. \A u \in Thread : Knows(u, ReadBy(u))'
  BY <1>2, <1>6 DEF IInv, Handover
<1>10. \A u \in At(ReadHeld)' \cup At(WriteHeld)' : Knows(u, Shared)'
  <2> SUFFICES ASSUME NEW u \in Thread, pc'[u] \in ReadHeld \cup WriteHeld
               PROVE  Knows(u, Shared)'
    BY DEF At
  <2>1. CASE u = t
    BY <1>4, <1>6, <1>7, <2>1 DEF IInv, Handover
  <2>2. CASE u # t
    BY <1>2, <1>6, <1>7, <2>2 DEF IInv, Handover, At
  <2> QED
    BY <2>1, <2>2
<1>11. \A w \in At(WriteHeld)', u \in Thread : Knows(w, ReadBy(u))'
  <2> SUFFICES ASSUME NEW w \in Thread, pc'[w] \in WriteHeld, NEW u \in Thread
               PROVE  Knows(w, ReadBy(u))'
    BY DEF At
  <2>1. CASE w = t
    <3>1. pc[u] # "readUnlock"
      BY <1>7, <2>1 DEF At, ReadHeld
    <3> QED
      BY <1>4, <1>6, <1>7, <2>1, <3>1 DEF IInv, Handover
  <2>2. CASE w # t
    BY <1>2, <1>6, <1>7, <2>2 DEF IInv, Handover, At
  <2> QED
    BY <2>1, <2>2
<1>12. At(WriteHeld)' = {} => Carries(Shared)'
  <2>1. CASE t \in At(WriteHeld)
    <3>1. Knows(t, Shared) /\ cur[t] \subseteq Carried'
      BY <2>1 DEF IInv, Handover, At
    <3> QED
      BY <1>5, <1>6, <3>1
  <2>2. CASE t \notin At(WriteHeld)
    <3>1. At(WriteHeld)' = {} => At(WriteHeld) = {}
      BY <1>7, <2>2 DEF At
    <3> QED
      BY <1>3, <1>6, <3>1 DEF IInv, Handover
  <2> QED
    BY <2>1, <2>2
<1>13. \A u \in Thread : pc'[u] # "readUnlock" => Carries(ReadBy(u))'
  <2> SUFFICES ASSUME NEW u \in Thread, pc'[u] # "readUnlock"
               PROVE  Carries(ReadBy(u))'
    OBVIOUS
  <2>1. CASE pc[u] = "readUnlock"
    <3>1. u = t /\ cur[t] \subseteq Carried'
      BY <1>7, <2>1 DEF ReadHeld
    <3> QED
      BY <1>5, <1>6, <3>1 DEF IInv, Handover
  <2>2. CASE pc[u] # "readUnlock"
    BY <1>3, <1>6, <2>2 DEF IInv, Handover
  <2> QED
    BY <2>1, <2>2
<1> QED
  BY <1>8, <1>9, <1>10, <1>11, <1>12, <1>13 DEF Handover

(* The rest of the invariant after a step that changes the counter by what *)
(* the thread takes or gives back.                                         *)
LEMMA AccountStep ==
  ASSUME IInv, NEW t \in Thread, NEW to \in Label, pc' = [pc EXCEPT ![t] = to],
         NEW i, NEW n \in Int, NEW ord,
         ReadModifyWrite(t, Lock, i, Val(Lock, i) + n, ord),
         attempts' \in 0..MaxAttempts,
         \/ n = -1 /\ pc[t] \in TookNone /\ to \in TookOne
         \/ n = 1 /\ pc[t] \in TookOne /\ to \in TookNone
         \/ n = -Bias /\ pc[t] \in TookNone /\ to \in TookBias
         \/ n = Bias /\ pc[t] \in TookBias /\ to \in TookNone
  PROVE  Types' /\ Chain' /\ Values' /\ Account'
<1> DEFINE r == Cardinality(At(TookOne))
           w == Cardinality(At(TookBias))
<1>1. /\ Counter \in Int
      /\ MemType(Loc, Int)'
      /\ Chain'
      /\ Newest(Lock)' = Newest(Lock) + 1
      /\ Counter' = Counter + n
      /\ \A k \in 1..Newest(Lock) : Val(Lock, k)' = Val(Lock, k)
  BY CounterStep
<1>2. Types'
  BY <1>1 DEF IInv, Types
<1>3. Bias \in Nat
  BY RWLockAssumption
<1>4. r \in Nat /\ w \in Nat /\ Counter = Bias - r - Bias * w
  BY Counting DEF IInv, Account
<1>5. Account'
  <2>1. CASE n = -1 /\ pc[t] \in TookNone /\ to \in TookOne
    <3>1. Cardinality(At(TookOne)') = r + 1
      BY <2>1, Counting, Labels DEF IInv
    <3>2. At(TookBias)' = At(TookBias)
      BY <2>1, Counting, Labels DEF IInv
    <3>3. Counter' = Bias - (r + 1) - Bias * w
      <4>1. Bias * w \in Int
        BY <1>3, <1>4
      <4> QED
        BY <1>1, <1>3, <1>4, <2>1, <4>1
    <3> QED
      BY <3>1, <3>2, <3>3 DEF Account
  <2>2. CASE n = 1 /\ pc[t] \in TookOne /\ to \in TookNone
    <3>1. Cardinality(At(TookOne)') = r - 1
      BY <2>2, Counting, Labels DEF IInv
    <3>2. At(TookBias)' = At(TookBias)
      BY <2>2, Counting, Labels DEF IInv
    <3>3. Counter' = Bias - (r - 1) - Bias * w
      <4>1. Bias * w \in Int
        BY <1>3, <1>4
      <4> QED
        BY <1>1, <1>3, <1>4, <2>2, <4>1
    <3> QED
      BY <3>1, <3>2, <3>3 DEF Account
  <2>3. CASE n = -Bias /\ pc[t] \in TookNone /\ to \in TookBias
    <3>1. Cardinality(At(TookBias)') = w + 1
      BY <2>3, Counting, Labels DEF IInv
    <3>2. At(TookOne)' = At(TookOne)
      BY <2>3, Counting, Labels DEF IInv
    <3>3. Counter' = Bias - r - Bias * (w + 1)
      <4>1. Bias * w \in Int /\ Bias * (w + 1) = Bias * w + Bias
        BY <1>3, <1>4
      <4> QED
        BY <1>1, <1>3, <1>4, <2>3, <4>1
    <3> QED
      BY <3>1, <3>2, <3>3 DEF Account
  <2>4. CASE n = Bias /\ pc[t] \in TookBias /\ to \in TookNone
    <3>1. Cardinality(At(TookBias)') = w - 1
      BY <2>4, Counting, Labels DEF IInv
    <3>2. At(TookOne)' = At(TookOne)
      BY <2>4, Counting, Labels DEF IInv
    <3>3. Counter' = Bias - r - Bias * (w - 1)
      <4>1. Bias * w \in Int /\ Bias * (w - 1) = Bias * w - Bias
        BY <1>3, <1>4
      <4> QED
        BY <1>1, <1>3, <1>4, <2>4, <4>1
    <3> QED
      BY <3>1, <3>2, <3>3 DEF Account
  <2> QED
    BY <2>1, <2>2, <2>3, <2>4
<1>6. Values'
  <2>1. At(TookOne)' \in SUBSET Thread /\ At(TookBias)' \in SUBSET Thread
    BY DEF At
  <2>2. At(TookOne)' \cap At(TookBias)' = {}
    BY Labels DEF At
  <2>3. Counter' \in Lowest..Bias
    BY <1>5, <2>1, <2>2, CounterRange DEF Account
  <2>4. \A k \in 1..(Newest(Lock) + 1) : Val(Lock, k)' \in Lowest..Bias
    <3>1. Newest(Lock) \in Nat
      BY Lengths, Locations DEF IInv
    <3>2. hist'[Lock][Newest(Lock) + 1].val = Counter'
      BY <1>1 DEF Counter, Val
    <3>3. \A k \in 1..(Newest(Lock) + 1) : k \in 1..Newest(Lock) \/ k = Newest(Lock) + 1
      BY <3>1
    <3>4. \A k \in 1..Newest(Lock) : Val(Lock, k)' \in Lowest..Bias
      BY <1>1 DEF IInv, Values
    <3> QED
      BY <2>3, <3>2, <3>3, <3>4 DEF Val
  <2> QED
    BY <1>1, <2>4 DEF Values
<1> QED
  BY <1>1, <1>2, <1>5, <1>6

(* The values of the counter are numbers.                                  *)
LEMMA CounterValue ==
  ASSUME IInv, NEW t, NEW ord, NEW i \in Extendable(t, Lock, ord)
  PROVE  Val(Lock, i) \in Int /\ i \in 1..Newest(Lock)
<1>1. i \in 1..Newest(Lock)
  BY ExtendableRange
<1>2. Lowest \in Int /\ Bias \in Int
  BY RWLockAssumption, FS_CardinalityType DEF Lowest
<1> QED
  BY <1>1, <1>2 DEF IInv, Values

(* An attempt to read: the four sites of the prior value's test.           *)
LEMMA ReaderTakes ==
  ASSUME IInv, NEW t \in Thread, NEW from \in {"idle", "readRetry"},
         NEW failed \in {"readUndo", "tryReadUndo"},
         TakeAsReader(t, acquire, from, failed), attempts' \in 0..MaxAttempts
  PROVE  IInv'
<1>1. PICK i \in Extendable(t, Lock, acquire) :
        /\ ReadModifyWrite(t, Lock, i, Val(Lock, i) - 1, acquire)
        /\ Goto(t, from, IF ReadGranted(Val(Lock, i)) THEN "reader" ELSE failed)
  BY DEF TakeAsReader
<1> DEFINE to == IF ReadGranted(Val(Lock, i)) THEN "reader" ELSE failed
<1>2. /\ pc[t] = from /\ pc' = [pc EXCEPT ![t] = to]
      /\ pc[t] \in TookNone /\ to \in TookOne /\ to \in Label
  BY <1>1 DEF Goto, TookNone, TookOne, ReadHeld, Label
<1>3. ReadModifyWrite(t, Lock, i, Val(Lock, i) + (-1), acquire) /\ -1 \in Int
  <2>1. Val(Lock, i) - 1 = Val(Lock, i) + (-1)
    BY <1>1, CounterValue
  <2> QED
    BY <1>1, <2>1
<1>4. /\ i = Newest(Lock)
      /\ \A x \in Loc \ {Lock} : hist'[x] = hist[x]
      /\ \A u \in Thread : cur[u] \subseteq cur'[u]
      /\ Carried \subseteq Carried'
      /\ Carried \subseteq cur'[t]
  BY <1>3, CounterStep DEF Acquiring, acquire
<1>5. to = "reader" => At(TookBias) = {} /\ Cardinality(At(ReadHeld)) < Bias
  <2> SUFFICES ASSUME to = "reader"
               PROVE  At(TookBias) = {} /\ Cardinality(At(ReadHeld)) < Bias
    OBVIOUS
  <2>1. Counter > 0
    BY <1>4 DEF ReadGranted, Counter
  <2>2. /\ Cardinality(At(TookOne)) \in Nat /\ Cardinality(At(TookBias)) \in Nat
        /\ IsFiniteSet(At(TookOne)) /\ IsFiniteSet(At(TookBias))
    BY <1>2, Counting DEF IInv
  <2>3. Cardinality(At(TookBias)) = 0 /\ Cardinality(At(TookOne)) < Bias
    BY <2>1, <2>2, PositiveCounter DEF IInv, Account
  <2>4. At(ReadHeld) \subseteq At(TookOne)
    BY DEF At, TookOne
  <2>5. Cardinality(At(ReadHeld)) <= Cardinality(At(TookOne)) /\ Cardinality(At(ReadHeld)) \in Nat
    BY <2>2, <2>4, FS_Subset, FS_CardinalityType
  <2> QED
    BY <2>2, <2>3, <2>5, FS_EmptySet, RWLockAssumption
<1>6. At(WriteHeld) \subseteq At(TookBias)
  BY DEF At, TookBias
<1> HIDE DEF to
<1>7. Types' /\ Chain' /\ Values' /\ Account'
  BY <1>2, <1>3, AccountStep
<1>8. to = "reader" \/ to \in {"readUndo", "tryReadUndo"}
  BY DEF to
<1>9. Exclusion'
  <2>1. At(WriteHeld)' = At(WriteHeld)
    BY <1>2, <1>8, Counting DEF IInv, WriteHeld, TookNone
  <2>2. CASE to = "reader"
    <3>1. Cardinality(At(ReadHeld)') = Cardinality(At(ReadHeld)) + 1 /\ Cardinality(At(ReadHeld)) \in Nat
      BY <1>2, <2>2, Counting DEF IInv, ReadHeld, TookNone
    <3> QED
      BY <1>5, <1>6, <2>1, <2>2, <3>1, RWLockAssumption DEF Exclusion
  <2>3. CASE to # "reader"
    <3>1. At(ReadHeld)' = At(ReadHeld)
      BY <1>2, <1>8, <2>3, Counting DEF IInv, ReadHeld, TookNone
    <3> QED
      BY <2>1, <3>1 DEF IInv, Exclusion
  <2> QED
    BY <2>2, <2>3
<1>10. Handover'
  <2>1. pc[t] \notin ReadHeld \cup WriteHeld /\ to # "readUnlock" /\ to \notin WriteHeld
    BY <1>2, <1>8 DEF TookNone, ReadHeld, WriteHeld
  <2>2. to \in ReadHeld \cup WriteHeld => At(WriteHeld) = {}
    BY <1>5, <1>6, <1>8, <2>1 DEF ReadHeld
  <2> QED
    BY <1>2, <1>4, <2>1, <2>2, HandoverStep
<1> QED
  BY <1>7, <1>9, <1>10 DEF IInv

(* An attempt to write.                                                    *)
LEMMA WriterTakes ==
  ASSUME IInv, NEW t \in Thread, NEW from \in {"idle", "writeRetry"},
         NEW failed \in {"writeUndo", "tryWriteUndo"},
         TakeAsWriter(t, acquire, from, failed), attempts' \in 0..MaxAttempts
  PROVE  IInv'
<1>1. PICK i \in Extendable(t, Lock, acquire) :
        /\ ReadModifyWrite(t, Lock, i, Val(Lock, i) - Bias, acquire)
        /\ Goto(t, from, IF WriteGranted(Val(Lock, i)) THEN "writer" ELSE failed)
  BY DEF TakeAsWriter
<1> DEFINE to == IF WriteGranted(Val(Lock, i)) THEN "writer" ELSE failed
<1>2. /\ pc[t] = from /\ pc' = [pc EXCEPT ![t] = to]
      /\ pc[t] \in TookNone /\ to \in TookBias /\ to \in Label
  BY <1>1 DEF Goto, TookNone, TookBias, WriteHeld, Label
<1>3. ReadModifyWrite(t, Lock, i, Val(Lock, i) + (-Bias), acquire) /\ -Bias \in Int
  <2>1. Val(Lock, i) - Bias = Val(Lock, i) + (-Bias) /\ -Bias \in Int
    BY <1>1, CounterValue, RWLockAssumption
  <2> QED
    BY <1>1, <2>1
<1>4. /\ i = Newest(Lock)
      /\ \A x \in Loc \ {Lock} : hist'[x] = hist[x]
      /\ \A u \in Thread : cur[u] \subseteq cur'[u]
      /\ Carried \subseteq Carried'
      /\ Carried \subseteq cur'[t]
  BY <1>3, CounterStep DEF Acquiring, acquire
<1>5. to = "writer" => At(TookBias) = {} /\ At(TookOne) = {}
  <2> SUFFICES ASSUME to = "writer"
               PROVE  At(TookBias) = {} /\ At(TookOne) = {}
    OBVIOUS
  <2>1. Counter = Bias
    BY <1>4 DEF WriteGranted, Counter
  <2>2. /\ Cardinality(At(TookOne)) \in Nat /\ Cardinality(At(TookBias)) \in Nat
        /\ IsFiniteSet(At(TookOne)) /\ IsFiniteSet(At(TookBias))
    BY <1>2, Counting DEF IInv
  <2>3. Cardinality(At(TookBias)) = 0 /\ Cardinality(At(TookOne)) = 0
    <3>1. Bias \in Nat /\ Bias >= 1
      BY RWLockAssumption
    <3>2. Bias > 0 /\ Counter = Bias - Cardinality(At(TookOne)) - Bias * Cardinality(At(TookBias))
      BY <3>1 DEF IInv, Account
    <3>3. Cardinality(At(TookBias)) = 0
      BY <2>1, <2>2, <3>2, PositiveCounter
    <3>4. Bias * Cardinality(At(TookBias)) = 0
      BY <3>1, <3>3
    <3> QED
      BY <2>1, <2>2, <3>1, <3>2, <3>3, <3>4
  <2> QED
    BY <2>2, <2>3, FS_EmptySet
<1>6. At(WriteHeld) \subseteq At(TookBias) /\ At(ReadHeld) \subseteq At(TookOne)
  BY DEF At, TookBias, TookOne
<1> HIDE DEF to
<1>7. Types' /\ Chain' /\ Values' /\ Account'
  BY <1>2, <1>3, AccountStep
<1>8. to = "writer" \/ to \in {"writeUndo", "tryWriteUndo"}
  BY DEF to
<1>9. Exclusion'
  <2>1. At(ReadHeld)' = At(ReadHeld)
    BY <1>2, <1>8, Counting DEF IInv, ReadHeld, TookNone
  <2>2. CASE to = "writer"
    <3>1. At(WriteHeld)' = At(WriteHeld) \cup {t}
      BY <1>2, <2>2, Counting DEF IInv, WriteHeld, TookNone
    <3> QED
      BY <1>5, <1>6, <2>1, <2>2, <3>1 DEF IInv, Exclusion
  <2>3. CASE to # "writer"
    <3>1. At(WriteHeld)' = At(WriteHeld)
      BY <1>2, <1>8, <2>3, Counting DEF IInv, WriteHeld, TookNone
    <3> QED
      BY <2>1, <3>1 DEF IInv, Exclusion
  <2> QED
    BY <2>2, <2>3
<1>10. Handover'
  <2>1. pc[t] \notin ReadHeld \cup WriteHeld /\ to # "readUnlock"
    BY <1>2, <1>8 DEF TookNone, ReadHeld, WriteHeld
  <2>2. to \in ReadHeld \cup WriteHeld => At(WriteHeld) = {} /\ At(ReadHeld) = {}
    BY <1>5, <1>6, <1>8 DEF ReadHeld, WriteHeld
  <2> QED
    BY <1>2, <1>4, <2>1, <2>2, HandoverStep
<1> QED
  BY <1>7, <1>9, <1>10 DEF IInv

(* Undoing a failed attempt, and unlocking.                                *)
LEMMA GivesBack ==
  ASSUME IInv, NEW t \in Thread, NEW from, NEW to \in TookNone, NEW n \in Int, NEW ord,
         Goto(t, from, to), FetchAdd(t, n, ord), UNCHANGED attempts,
         \/ n = 1 /\ from \in TookOne
         \/ n = Bias /\ from \in TookBias,
         from \in ReadHeld \cup WriteHeld => ord = release
  PROVE  IInv'
<1>1. PICK i : ReadModifyWrite(t, Lock, i, Val(Lock, i) + n, ord)
  BY DEF FetchAdd
<1>2. pc[t] = from /\ pc' = [pc EXCEPT ![t] = to] /\ to \in Label /\ attempts' \in 0..MaxAttempts
  BY Labels DEF Goto, IInv, Types
<1>3. Types' /\ Chain' /\ Values' /\ Account'
  BY <1>1, <1>2, AccountStep
<1>4. to \notin ReadHeld \cup WriteHeld /\ to # "readUnlock"
  BY Labels DEF TookNone
<1>5. Exclusion'
  <2>1. At(ReadHeld)' \subseteq At(ReadHeld) /\ At(WriteHeld)' \subseteq At(WriteHeld)
    BY <1>2, <1>4 DEF At, IInv, Types
  <2>2. /\ Cardinality(At(ReadHeld)') <= Cardinality(At(ReadHeld))
        /\ Cardinality(At(ReadHeld)') \in Nat /\ Cardinality(At(ReadHeld)) \in Nat
    <3>1. IsFiniteSet(At(ReadHeld))
      BY <1>2, Counting DEF IInv
    <3> QED
      BY <2>1, <3>1, FS_Subset, FS_CardinalityType
  <2>3. Cardinality(At(ReadHeld)') <= Bias
    BY <2>2, RWLockAssumption DEF IInv, Exclusion
  <2> QED
    BY <2>1, <2>3 DEF IInv, Exclusion
<1>6. Handover'
  <2>1. /\ \A x \in Loc \ {Lock} : hist'[x] = hist[x]
        /\ \A u \in Thread : cur[u] \subseteq cur'[u]
        /\ Carried \subseteq Carried'
        /\ ord \in Releasing => cur[t] \subseteq Carried'
    BY <1>1, CounterStep
  <2>2. pc[t] \in ReadHeld \cup WriteHeld => cur[t] \subseteq Carried'
    BY <1>2, <2>1 DEF Releasing, release
  <2> QED
    BY <1>2, <1>4, <2>1, <2>2, HandoverStep
<1> QED
  BY <1>3, <1>5, <1>6 DEF IInv

(* Loads of the counter: the thread sees more, nothing else changes.       *)
LEMMA Loads ==
  ASSUME IInv, NEW t \in Thread, NEW i, NEW ord, Load(t, Lock, i, ord),
         NEW to \in TookNone, pc[t] \in TookNone, pc' = [pc EXCEPT ![t] = to],
         attempts' \in 0..MaxAttempts
  PROVE  IInv'
<1>1. MemType(Loc, Int)' /\ hist' = hist /\ \A u \in Thread : cur[u] \subseteq cur'[u]
  <2>1. MemType(Loc, Int)'
    BY LoadType, Locations DEF IInv, Types
  <2>2. hist' = hist /\ cur' = [cur EXCEPT ![t] = Observe(t, Lock, i, ord)]
    BY DEF Load
  <2> QED
    BY <2>1, <2>2 DEF Observe, IInv, Types, MemType
<1>2. to \in Label
  BY Labels
<1>3. Types' /\ Chain' /\ Values'
  BY <1>1, <1>2 DEF IInv, Types, Chain, Linear, Values, Newest, Val
<1>4. /\ At(TookOne)' = At(TookOne) /\ At(TookBias)' = At(TookBias)
      /\ At(ReadHeld)' = At(ReadHeld) /\ At(WriteHeld)' = At(WriteHeld)
  BY <1>2, Labels, Counting DEF IInv
<1>5. Account' /\ Exclusion'
  BY <1>1, <1>4 DEF IInv, Account, Exclusion, Counter, Newest, Val
<1>6. Handover'
  <2>1. Carried' = Carried
    BY <1>1 DEF Carried, Newest
  <2>2. to \notin ReadHeld \cup WriteHeld /\ pc[t] \notin ReadHeld \cup WriteHeld /\ to # "readUnlock"
    BY Labels DEF TookNone
  <2> QED
    BY <1>1, <1>2, <2>1, <2>2, HandoverStep
<1> QED
  BY <1>3, <1>5, <1>6 DEF IInv

(* A store to a location other than the counter, by a thread that knows    *)
(* every write to it.                                                      *)
LEMMA Stores ==
  ASSUME IInv, NEW t \in Thread, NEW x \in Loc, x # Lock, Knows(t, x),
         Store(t, x, 0, relaxed),
         NEW to \in Label, pc' = [pc EXCEPT ![t] = to], UNCHANGED attempts,
         \/ pc[t] \in ReadHeld /\ to \in ReadHeld
         \/ pc[t] \in WriteHeld /\ to \in WriteHeld
  PROVE  /\ Types' /\ Chain' /\ Values' /\ Account' /\ Exclusion'
         /\ At(ReadHeld)' = At(ReadHeld) /\ At(WriteHeld)' = At(WriteHeld)
         /\ Knows(t, x)'
         /\ \A u \in Thread : cur[u] \subseteq cur'[u]
         /\ \A y \in Loc \ {x} : hist'[y] = hist[y]
         /\ Carried' = Carried
<1>1. /\ MemType(Loc, Int) /\ Newest(x) \in Nat /\ Newest(x) >= 1
      /\ \A y \in Loc : Linear(y)
  BY Lengths DEF IInv, Types, Chain
<1>2. Event(x, Newest(x)) \in cur[t]
  BY <1>1 DEF Knows, Event, Linear, Newest
<1>3. /\ Appended(Loc, x)
      /\ hist'[x][Newest(x) + 1].id = Newest(x) + 1
      /\ cur'[t] = cur[t] \cup Upto(x, Newest(x)) \cup {NextEvent(x)}
      /\ \A u \in Thread \ {t} : cur'[u] = cur[u]
  <2>1. MemType(Loc, Int) /\ 0 \in Int
    BY <1>1
  <2> QED
    BY <1>2, <2>1, StoreAtEnd
<1>4. MemType(Loc, Int)'
  BY <1>1, StoreType
<1>5. \A y \in Loc : Linear(y)'
  BY <1>1, <1>3, AppendedLinear
<1>6. hist'[Lock] = hist[Lock] /\ Newest(x)' = Newest(x) + 1 /\ \A y \in Loc \ {x} : hist'[y] = hist[y]
  BY <1>3, Locations DEF Appended, Newest
<1>7. Newest(Lock)' = Newest(Lock) /\ Carried' = Carried /\ \A k : Val(Lock, k)' = Val(Lock, k)
  BY <1>6 DEF Newest, Carried, Val
<1>8. Types' /\ Chain' /\ Values'
  BY <1>4, <1>5, <1>6, <1>7 DEF IInv, Types, Chain, Values
<1>9. /\ At(TookOne)' = At(TookOne) /\ At(TookBias)' = At(TookBias)
      /\ At(ReadHeld)' = At(ReadHeld) /\ At(WriteHeld)' = At(WriteHeld)
  BY Labels, Counting DEF IInv
<1>10. Account' /\ Exclusion'
  BY <1>7, <1>9 DEF IInv, Account, Exclusion, Counter
<1>11. Knows(t, x)'
  <2>1. \A k \in 1..(Newest(x) + 1) : k \in 1..Newest(x) \/ k = Newest(x) + 1
    BY <1>1
  <2> QED
    BY <1>3, <1>6, <2>1 DEF Knows, NextEvent
<1> QED
  BY <1>3, <1>6, <1>7, <1>8, <1>9, <1>10, <1>11

LEMMA ReadSharedStep ==
  ASSUME IInv, NEW t \in Thread, ReadShared(t)
  PROVE  IInv'
<1>1. /\ pc[t] = "reader" /\ pc' = [pc EXCEPT ![t] = "readUnlock"] /\ UNCHANGED attempts
      /\ Store(t, ReadBy(t), 0, relaxed)
  BY DEF ReadShared, Goto
<1>2. /\ ReadBy(t) \in Loc /\ ReadBy(t) # Lock /\ ReadBy(t) # Shared /\ Shared \in Loc
      /\ \A u \in Thread : ReadBy(u) \in Loc /\ (u # t => ReadBy(u) # ReadBy(t))
  BY Locations
<1>3. "readUnlock" \in Label /\ pc[t] \in ReadHeld /\ "readUnlock" \in ReadHeld
  BY <1>1 DEF Label, TookOne, ReadHeld
<1>4. /\ Types' /\ Chain' /\ Values' /\ Account' /\ Exclusion'
      /\ At(ReadHeld)' = At(ReadHeld) /\ At(WriteHeld)' = At(WriteHeld)
      /\ Knows(t, ReadBy(t))'
      /\ \A u \in Thread : cur[u] \subseteq cur'[u]
      /\ \A y \in Loc \ {ReadBy(t)} : hist'[y] = hist[y]
      /\ Carried' = Carried
  BY <1>1, <1>2, <1>3, Stores DEF IInv, Handover
<1>5. At(WriteHeld) = {}
  BY <1>3 DEF IInv, Exclusion, At
<1>6. Handover'
  <2>1. \A y \in Loc \ {ReadBy(t)} : Newest(y)' = Newest(y)
    BY <1>4 DEF Newest
  <2>2. \A y \in Loc \ {ReadBy(t)}, u \in Thread : Knows(u, y) => Knows(u, y)'
    BY <1>4, <2>1 DEF Knows
  <2>3. \A y \in Loc \ {ReadBy(t)} : Carries(y) => Carries(y)'
    BY <1>4, <2>1 DEF Carries
  <2>4. \A u \in Thread, y \in Loc : <<y, 1>> \in cur'[u]
    BY <1>4 DEF IInv, Handover
  <2>5. \A u \in Thread : Knows(u, ReadBy(u))'
    BY <1>2, <1>4, <2>2 DEF IInv, Handover
  <2>6. \A u \in At(ReadHeld)' \cup At(WriteHeld)' : Knows(u, Shared)'
    BY <1>2, <1>4, <2>2 DEF IInv, Handover, At
  <2>7. \A u \in Thread : pc'[u] # "readUnlock" => Carries(ReadBy(u))'
    BY <1>1, <1>2, <2>3 DEF IInv, Types, Handover
  <2> QED
    BY <1>2, <1>4, <1>5, <2>3, <2>4, <2>5, <2>6, <2>7 DEF IInv, Handover
<1> QED
  BY <1>4, <1>6 DEF IInv

LEMMA WriteSharedStep ==
  ASSUME IInv, NEW t \in Thread, WriteShared(t)
  PROVE  IInv'
<1>1. /\ pc[t] = "writer" /\ pc' = [pc EXCEPT ![t] = "writeUnlock"] /\ UNCHANGED attempts
      /\ Store(t, Shared, 0, relaxed)
  BY DEF WriteShared, Goto
<1>2. Shared \in Loc /\ Shared # Lock /\ \A u \in Thread : ReadBy(u) \in Loc \ {Shared}
  BY Locations
<1>3. "writeUnlock" \in Label /\ pc[t] \in WriteHeld /\ "writeUnlock" \in WriteHeld
  BY <1>1 DEF Label, TookBias, WriteHeld
<1>4. At(WriteHeld) = {t} /\ At(ReadHeld) = {}
  BY <1>3 DEF IInv, Exclusion, At
<1>5. /\ Types' /\ Chain' /\ Values' /\ Account' /\ Exclusion'
      /\ At(ReadHeld)' = At(ReadHeld) /\ At(WriteHeld)' = At(WriteHeld)
      /\ Knows(t, Shared)'
      /\ \A u \in Thread : cur[u] \subseteq cur'[u]
      /\ \A y \in Loc \ {Shared} : hist'[y] = hist[y]
      /\ Carried' = Carried
  BY <1>1, <1>2, <1>3, <1>4, Stores DEF IInv, Handover
<1>6. Handover'
  <2>1. \A y \in Loc \ {Shared} : Newest(y)' = Newest(y)
    BY <1>5 DEF Newest
  <2>2. \A y \in Loc \ {Shared}, u \in Thread : Knows(u, y) => Knows(u, y)'
    BY <1>5, <2>1 DEF Knows
  <2>3. \A y \in Loc \ {Shared} : Carries(y) => Carries(y)'
    BY <1>5, <2>1 DEF Carries
  <2>4. \A u \in Thread, y \in Loc : <<y, 1>> \in cur'[u]
    BY <1>5 DEF IInv, Handover
  <2>5. \A u, v \in Thread : Knows(u, ReadBy(v)) => Knows(u, ReadBy(v))'
    BY <1>2, <2>2
  <2>6. \A u \in Thread : pc'[u] # "readUnlock" => Carries(ReadBy(u))'
    BY <1>1, <1>2, <2>3 DEF IInv, Types, Handover
  <2> QED
    BY <1>4, <1>5, <2>4, <2>5, <2>6 DEF IInv, Handover, At
<1> QED
  BY <1>5, <1>6 DEF IInv

-----------------------------------------------------------------------------
(* Every step of a thread keeps the invariant.                             *)
LEMMA ThreadSteps ==
  ASSUME IInv, NEW t \in Thread, ThreadStep(t)
  PROVE  IInv'
<1>1. attempts \in Nat /\ attempts <= MaxAttempts /\ MaxAttempts \in Nat
  BY RWLockAssumption DEF IInv, Types
<1>2. NewAttempt => attempts' \in 0..MaxAttempts
  BY <1>1 DEF NewAttempt
<1>3. UNCHANGED attempts => attempts' \in 0..MaxAttempts
  BY <1>1
<1>4. Bias \in Int /\ 1 \in Int
  BY RWLockAssumption
<1>5. CASE ReadLock(t)
  BY <1>2, <1>5, ReaderTakes DEF ReadLock, OrderReadLock
<1>6. CASE ReadLock_Retry(t)
  BY <1>3, <1>6, ReaderTakes DEF ReadLock_Retry, OrderReadRetry
<1>7. CASE ReadTrylock(t)
  BY <1>2, <1>7, ReaderTakes DEF ReadTrylock, OrderReadTry
<1>8. CASE WriteLock(t)
  BY <1>2, <1>8, WriterTakes DEF WriteLock, OrderWriteLock
<1>9. CASE WriteLock_Retry(t)
  BY <1>3, <1>9, WriterTakes DEF WriteLock_Retry, OrderWriteRetry
<1>10. CASE WriteTrylock(t)
  BY <1>2, <1>10, WriterTakes DEF WriteTrylock, OrderWriteTry
<1>11. CASE ReadLock_Undo(t)
  <2>1. "readSpin" \in TookNone /\ "readUndo" \in TookOne /\ "readUndo" \notin ReadHeld \cup WriteHeld
    BY DEF TookNone, TookOne, ReadHeld, WriteHeld
  <2> QED
    BY <1>4, <1>11, <2>1, GivesBack DEF ReadLock_Undo
<1>12. CASE WriteLock_Undo(t)
  <2>1. "writeSpin" \in TookNone /\ "writeUndo" \in TookBias /\ "writeUndo" \notin ReadHeld \cup WriteHeld
    BY DEF TookNone, TookBias, ReadHeld, WriteHeld
  <2> QED
    BY <1>4, <1>12, <2>1, GivesBack DEF WriteLock_Undo
<1>13. CASE ReadTrylock_Undo(t)
  <2>1. "idle" \in TookNone /\ "tryReadUndo" \in TookOne /\ "tryReadUndo" \notin ReadHeld \cup WriteHeld
    BY DEF TookNone, TookOne, ReadHeld, WriteHeld
  <2> QED
    BY <1>4, <1>13, <2>1, GivesBack DEF ReadTrylock_Undo
<1>14. CASE WriteTrylock_Undo(t)
  <2>1. "idle" \in TookNone /\ "tryWriteUndo" \in TookBias /\ "tryWriteUndo" \notin ReadHeld \cup WriteHeld
    BY DEF TookNone, TookBias, ReadHeld, WriteHeld
  <2> QED
    BY <1>4, <1>14, <2>1, GivesBack DEF WriteTrylock_Undo
<1>15. CASE ReadUnlock(t)
  <2>1. "idle" \in TookNone /\ "readUnlock" \in TookOne
    BY DEF TookNone, TookOne, ReadHeld
  <2> QED
    BY <1>4, <1>15, <2>1, GivesBack DEF ReadUnlock, OrderReadUnlock
<1>16. CASE WriteUnlock(t)
  <2>1. "idle" \in TookNone /\ "writeUnlock" \in TookBias
    BY DEF TookNone, TookBias, WriteHeld
  <2> QED
    BY <1>4, <1>16, <2>1, GivesBack DEF WriteUnlock, OrderWriteUnlock
<1>17. CASE ReadLock_Spin(t)
  <2>1. PICK i : /\ pc[t] = "readSpin"
                 /\ Load(t, Lock, i, relaxed)
                 /\ UNCHANGED <<pc, attempts>> \/ (NewAttempt /\ Goto(t, "readSpin", "readRetry"))
    <3>1. PICK i \in Readable(t, Lock, relaxed) :
            /\ Load(t, Lock, i, relaxed)
            /\ IF Val(Lock, i) <= 0
               THEN UNCHANGED <<pc, attempts>>
               ELSE NewAttempt /\ Goto(t, "readSpin", "readRetry")
      BY <1>17 DEF ReadLock_Spin
    <3>2. pc[t] = "readSpin"
      BY <1>17 DEF ReadLock_Spin
    <3> QED
      BY <3>1, <3>2
  <2>2. "readSpin" \in TookNone /\ "readRetry" \in TookNone
    BY DEF TookNone
  <2>3. CASE UNCHANGED <<pc, attempts>>
    <3>1. pc' = [pc EXCEPT ![t] = "readSpin"]
      BY <2>1, <2>3 DEF IInv, Types
    <3> QED
      BY <1>3, <2>1, <2>2, <2>3, <3>1, Loads
  <2>4. CASE NewAttempt /\ Goto(t, "readSpin", "readRetry")
    BY <1>2, <2>1, <2>2, <2>4, Loads DEF Goto
  <2> QED
    BY <2>1, <2>3, <2>4
<1>18. CASE WriteLock_Spin(t)
  <2>1. PICK i : /\ pc[t] = "writeSpin"
                 /\ Load(t, Lock, i, relaxed)
                 /\ UNCHANGED <<pc, attempts>> \/ (NewAttempt /\ Goto(t, "writeSpin", "writeRetry"))
    <3>1. PICK i \in Readable(t, Lock, relaxed) :
            /\ Load(t, Lock, i, relaxed)
            /\ IF Val(Lock, i) # Bias
               THEN UNCHANGED <<pc, attempts>>
               ELSE NewAttempt /\ Goto(t, "writeSpin", "writeRetry")
      BY <1>18 DEF WriteLock_Spin
    <3>2. pc[t] = "writeSpin"
      BY <1>18 DEF WriteLock_Spin
    <3> QED
      BY <3>1, <3>2
  <2>2. "writeSpin" \in TookNone /\ "writeRetry" \in TookNone
    BY DEF TookNone
  <2>3. CASE UNCHANGED <<pc, attempts>>
    <3>1. pc' = [pc EXCEPT ![t] = "writeSpin"]
      BY <2>1, <2>3 DEF IInv, Types
    <3> QED
      BY <1>3, <2>1, <2>2, <2>3, <3>1, Loads
  <2>4. CASE NewAttempt /\ Goto(t, "writeSpin", "writeRetry")
    BY <1>2, <2>1, <2>2, <2>4, Loads DEF Goto
  <2> QED
    BY <2>1, <2>3, <2>4
<1>19. CASE CanLock(t)
  <2>1. PICK i : Load(t, Lock, i, relaxed) /\ pc[t] = "idle" /\ UNCHANGED <<pc, attempts>>
    BY <1>19 DEF CanLock
  <2>2. "idle" \in TookNone /\ pc' = [pc EXCEPT ![t] = "idle"]
    BY <2>1 DEF TookNone, IInv, Types
  <2> QED
    BY <1>3, <2>1, <2>2, Loads
<1>20. CASE ReadShared(t)
  BY <1>20, ReadSharedStep
<1>21. CASE WriteShared(t)
  BY <1>21, WriteSharedStep
<1> QED
  BY <1>5, <1>6, <1>7, <1>8, <1>9, <1>10, <1>11, <1>12, <1>13, <1>14, <1>15, <1>16,
     <1>17, <1>18, <1>19, <1>20, <1>21 DEF ThreadStep

(* So does a step that changes nothing.                                    *)
LEMMA Stuttering ==
  ASSUME IInv, UNCHANGED vars
  PROVE  IInv'
<1>1. UNCHANGED <<hist, cur, acq, rel, sc, pc, attempts>>
  BY DEF vars
<1>2. Types' /\ Chain' /\ Values'
  BY <1>1 DEF IInv, Types, MemType, Chain, Linear, Values, Newest, Val
<1>3. Account' /\ Exclusion'
  BY <1>1 DEF IInv, Account, Exclusion, Counter, Newest, Val, At
<1>4. Handover'
  BY <1>1 DEF IInv, Handover, Knows, Carries, Carried, Newest, At
<1> QED
  BY <1>2, <1>3, <1>4 DEF IInv

(* The inductive invariant of the reader-writer lock.                      *)
THEOREM Invariance == Spec => []IInv
<1>1. Init => IInv
  BY InitInvariant
<1>2. IInv /\ [Next]_vars => IInv'
  BY ThreadSteps, Stuttering DEF Next, Terminated
<1> QED
  BY <1>1, <1>2, PTL DEF Spec

(* TypeOK: the counter stays between RW_LOCK_BIAS and what all threads     *)
(* together can take from it.                                              *)
THEOREM TypeCorrectness == Spec => []TypeOK
<1>1. IInv => TypeOK
  BY DEF IInv, Types, Values, TypeOK, Lowest, Label, TookOne, TookBias, TookNone, ReadHeld, WriteHeld
<1> QED
  BY <1>1, Invariance, PTL

(* HoldersCompatible: properties 1, 2 and 4 of linuxrwlocks.c.             *)
THEOREM Safety == Spec => []HoldersCompatible
<1>1. IInv => HoldersCompatible
  BY DEF IInv, Exclusion, HoldersCompatible, Readers, Writers, ReadHeld, WriteHeld
<1> QED
  BY <1>1, Invariance, PTL

(* The sides of the account, as the component names them.                  *)
LEMMA Sides ==
  /\ Readers \cup FailedReaders = At(TookOne)
  /\ Writers \cup FailedWriters = At(TookBias)
BY DEF Readers, FailedReaders, Writers, FailedWriters, At, TookOne, TookBias, ReadHeld, WriteHeld

(* CounterAccounts: property 3 of linuxrwlocks.c.                          *)
THEOREM Accounting == Spec => []CounterAccounts
<1>1. IInv => CounterAccounts
  BY Sides DEF IInv, Account, Counter, CounterAccounts
<1> QED
  BY <1>1, Invariance, PTL

(* UnlockHappensBeforeLock: property 5 of linuxrwlocks.c.                  *)
THEOREM Synchronization == Spec => []UnlockHappensBeforeLock
<1>1. ASSUME IInv, NEW t \in Thread, NEW x \in Loc, Knows(t, x)
      PROVE  Synchronized(t, x)
  BY <1>1 DEF IInv, Chain, Linear, Knows, Synchronized, Upto, Event, Newest
<1>2. ASSUME IInv
      PROVE  UnlockHappensBeforeLock
  <2>1. ASSUME NEW t \in At({"reader"}) PROVE Synchronized(t, Shared)
    <3>1. t \in Thread /\ Knows(t, Shared)
      BY <1>2, <2>1 DEF IInv, Handover, At, ReadHeld
    <3> QED
      BY <1>1, <1>2, <3>1, Locations
  <2>2. ASSUME NEW t \in At({"writer"})
        PROVE  Synchronized(t, Shared) /\ \A u \in Thread : Synchronized(t, ReadBy(u))
    <3>1. t \in Thread /\ Knows(t, Shared) /\ \A u \in Thread : Knows(t, ReadBy(u))
      BY <1>2, <2>2 DEF IInv, Handover, At, WriteHeld
    <3> QED
      BY <1>1, <1>2, <3>1, Locations
  <2> QED
    BY <2>1, <2>2 DEF UnlockHappensBeforeLock
<1> QED
  BY <1>2, Invariance, PTL

-----------------------------------------------------------------------------
(* The steps of a thread: an attempt, or a step after which it has not     *)
(* failed one.                                                             *)
LEMMA StepKinds ==
  ASSUME IInv, NEW u \in Thread, ThreadStep(u)
  PROVE  \/ \E from, failed : TakeAsReader(u, acquire, from, failed)
                                /\ failed \in {"readUndo", "tryReadUndo"}
         \/ \E from, failed : TakeAsWriter(u, acquire, from, failed)
                                /\ failed \in {"writeUndo", "tryWriteUndo"}
         \/ \E to \in TookNone \cup ReadHeld \cup WriteHeld : pc' = [pc EXCEPT ![u] = to]
         \/ pc' = pc
<1>1. CASE ReadLock(u) \/ ReadLock_Retry(u) \/ ReadTrylock(u)
  BY <1>1 DEF ReadLock, ReadLock_Retry, ReadTrylock, OrderReadLock, OrderReadRetry, OrderReadTry
<1>2. CASE WriteLock(u) \/ WriteLock_Retry(u) \/ WriteTrylock(u)
  BY <1>2 DEF WriteLock, WriteLock_Retry, WriteTrylock, OrderWriteLock, OrderWriteRetry, OrderWriteTry
<1>3. CASE \/ ReadLock_Undo(u) \/ WriteLock_Undo(u) \/ ReadTrylock_Undo(u) \/ WriteTrylock_Undo(u)
           \/ ReadUnlock(u) \/ WriteUnlock(u)
  BY <1>3 DEF ReadLock_Undo, WriteLock_Undo, ReadTrylock_Undo, WriteTrylock_Undo, ReadUnlock,
              WriteUnlock, Goto, TookNone
<1>4. CASE ReadLock_Spin(u) \/ WriteLock_Spin(u) \/ CanLock(u)
  BY <1>4 DEF ReadLock_Spin, WriteLock_Spin, CanLock, Goto, TookNone
<1>5. CASE ReadShared(u) \/ WriteShared(u)
  BY <1>5 DEF ReadShared, WriteShared, Goto, ReadHeld, WriteHeld
<1> QED
  BY <1>1, <1>2, <1>3, <1>4, <1>5 DEF ThreadStep

(* Who fails has read the newest value of the counter.                     *)
LEMMA Failures ==
  ASSUME IInv, NEW u \in Thread, ThreadStep(u), NEW t \in Thread
  PROVE  /\ Taken(t, {"readUndo", "tryReadUndo"}) => Counter <= 0
         /\ Taken(t, {"writeUndo", "tryWriteUndo"}) => Counter # Bias
<1> DEFINE ReadFailed == {"readUndo", "tryReadUndo"}
           WriteFailed == {"writeUndo", "tryWriteUndo"}
<1>1. ASSUME NEW from, NEW failed \in ReadFailed, TakeAsReader(u, acquire, from, failed)
      PROVE  ~Taken(t, WriteFailed) /\ (Taken(t, ReadFailed) => Counter <= 0)
  <2>1. PICK i \in Extendable(u, Lock, acquire) :
          /\ ReadModifyWrite(u, Lock, i, Val(Lock, i) - 1, acquire)
          /\ Goto(u, from, IF ReadGranted(Val(Lock, i)) THEN "reader" ELSE failed)
    BY <1>1 DEF TakeAsReader
  <2>2. Val(Lock, i) \in Int
    BY <2>1, CounterValue
  <2>3. Val(Lock, i) = Counter
    <3>1. ReadModifyWrite(u, Lock, i, Val(Lock, i) + (-1), acquire) /\ -1 \in Int
      <4>1. Val(Lock, i) - 1 = Val(Lock, i) + (-1)
        BY <2>2
      <4> QED
        BY <2>1, <4>1
    <3>2. i = Newest(Lock)
      BY <3>1, CounterStep
    <3> QED
      BY <3>2 DEF Counter
  <2>4. pc' = [pc EXCEPT ![u] = IF ReadGranted(Counter) THEN "reader" ELSE failed]
    BY <2>1, <2>3 DEF Goto
  <2>5. Taken(t, ReadFailed) \/ Taken(t, WriteFailed) => t = u /\ pc'[t] # "reader"
    BY <2>4 DEF Taken, IInv, Types
  <2>6. ~ReadGranted(Counter) => Counter <= 0
    BY <2>2, <2>3 DEF ReadGranted
  <2> QED
    BY <2>4, <2>5, <2>6 DEF Taken, IInv, Types
<1>2. ASSUME NEW from, NEW failed \in WriteFailed, TakeAsWriter(u, acquire, from, failed)
      PROVE  ~Taken(t, ReadFailed) /\ (Taken(t, WriteFailed) => Counter # Bias)
  <2>1. PICK i \in Extendable(u, Lock, acquire) :
          /\ ReadModifyWrite(u, Lock, i, Val(Lock, i) - Bias, acquire)
          /\ Goto(u, from, IF WriteGranted(Val(Lock, i)) THEN "writer" ELSE failed)
    BY <1>2 DEF TakeAsWriter
  <2>2. Val(Lock, i) = Counter
    <3>1. ReadModifyWrite(u, Lock, i, Val(Lock, i) + (-Bias), acquire) /\ -Bias \in Int
      <4>1. Val(Lock, i) - Bias = Val(Lock, i) + (-Bias) /\ -Bias \in Int
        BY <2>1, CounterValue, RWLockAssumption
      <4> QED
        BY <2>1, <4>1
    <3>2. i = Newest(Lock)
      BY <3>1, CounterStep
    <3> QED
      BY <3>2 DEF Counter
  <2>3. pc' = [pc EXCEPT ![u] = IF WriteGranted(Counter) THEN "writer" ELSE failed]
    BY <2>1, <2>2 DEF Goto
  <2> QED
    BY <2>3 DEF Taken, IInv, Types, WriteGranted
<1>3. ASSUME NEW to \in TookNone \cup ReadHeld \cup WriteHeld, pc' = [pc EXCEPT ![u] = to]
      PROVE  ~Taken(t, ReadFailed) /\ ~Taken(t, WriteFailed)
  <2>1. to \notin ReadFailed /\ to \notin WriteFailed
    BY <1>3 DEF TookNone, ReadHeld, WriteHeld
  <2> QED
    BY <1>3, <2>1 DEF Taken, IInv, Types
<1>4. ASSUME pc' = pc
      PROVE  ~Taken(t, ReadFailed) /\ ~Taken(t, WriteFailed)
  BY <1>4 DEF Taken
<1> QED
  BY <1>1, <1>2, <1>3, <1>4, StepKinds

(* FailsOnlyUnderContention: an attempt does not fail without a cause.     *)
THEOREM HonestFailures == Spec => FailsOnlyUnderContention
<1> DEFINE Honest(t) ==
             /\ Taken(t, {"readUndo", "tryReadUndo"}) =>
                  \/ Writers \cup FailedWriters # {}
                  \/ Cardinality(Readers \cup FailedReaders) >= Bias
             /\ Taken(t, {"writeUndo", "tryWriteUndo"}) =>
                  Readers \cup Writers \cup FailedReaders \cup FailedWriters # {}
<1>1. ASSUME IInv, NEW u \in Thread, ThreadStep(u), NEW t \in Thread
      PROVE  Honest(t)
  <2> DEFINE r == Cardinality(At(TookOne))
             w == Cardinality(At(TookBias))
  <2>1. IsFiniteSet(At(TookOne)) /\ IsFiniteSet(At(TookBias)) /\ r \in Nat /\ w \in Nat
    <3>1. At(TookOne) \in SUBSET Thread /\ At(TookBias) \in SUBSET Thread
      BY DEF At
    <3> QED
      BY <3>1, FS_Subset, FS_CardinalityType, RWLockAssumption
  <2>2. Counter = Bias - r - Bias * w /\ Bias \in Nat /\ Bias >= 1
    BY <1>1, RWLockAssumption DEF IInv, Account
  <2>3. w = 0 => Counter = Bias - r
    BY <2>1, <2>2
  <2>4. (r = 0 <=> At(TookOne) = {}) /\ (w = 0 <=> At(TookBias) = {})
    BY <2>1, FS_EmptySet
  <2>5. Counter <= 0 => At(TookBias) # {} \/ r >= Bias
    BY <2>1, <2>2, <2>3, <2>4
  <2>6. Counter # Bias => At(TookBias) # {} \/ At(TookOne) # {}
    BY <2>1, <2>2, <2>3, <2>4
  <2>7. Readers \cup Writers \cup FailedReaders \cup FailedWriters = At(TookOne) \cup At(TookBias)
    BY Sides
  <2> QED
    BY <1>1, <2>5, <2>6, <2>7, Failures, Sides
<1>2. ASSUME UNCHANGED vars, NEW t \in Thread
      PROVE  Honest(t)
  BY <1>2 DEF vars, Taken
<1>3. IInv /\ [Next]_vars => [\A t \in Thread : Honest(t)]_vars
  BY <1>1, <1>2 DEF Next, Terminated
<1> QED
  BY <1>3, Invariance, PTL DEF Spec, FailsOnlyUnderContention

-----------------------------------------------------------------------------
(***************************************************************************)
(* Proofs about MSQueue, for every finite set of threads, any number of    *)
(* calls and any size of the free lists.                                   *)
(***************************************************************************)
(* The counts of the pointers do not wrap.                                 *)
CountsFit == MaxEnqueues < CountRange

Pointer == [ptr : Node \cup {null, POISON}, count : 0..(CountRange - 1)]
Content == Pointer \cup Nat

MakingLabel ==
  {"loadOwn", "initNext", "loadTail", "loadNext", "recheckTail", "link", "helpNext", "helpTail"}
ReadyLabel ==
  {"loadTail", "loadNext", "recheckTail", "link", "helpNext", "helpTail"}
TailLabel == {"loadNext", "recheckTail", "link", "helpNext", "helpTail", "swingTail"}
HeadLabel == {"deqTail", "deqNext", "recheckHead", "deqHelp", "value", "unlink"}
EnqueueLabel == MakingLabel \cup {"swingTail"}
QueueLabel == {"idle", "loadHead"} \cup EnqueueLabel \cup HeadLabel

(* The nodes in the order they were linked: the node at position k is the  *)
(* one tail has pointed to with count k, or will next.                     *)
HeadPos == Newest(HeadPtr) - 1
TailPos == Newest(TailPtr) - 1
AfterTail == Ptr(NextOf(Ptr(TailPtr)))
End == IF AfterTail = null THEN TailPos ELSE TailPos + 1
NodeAt(k) == IF k <= TailPos THEN Val(TailPtr, k + 1).ptr ELSE AfterTail
Position(k) == [ptr |-> NodeAt(k), count |-> k]

(* A node is used again and again.  Each use adds three messages: the null *)
(* of its next, the link to its successor, and its value.                  *)
Uses(m, k) == Cardinality({j \in 0..(k - 1) : NodeAt(j) = m})
Base(m) == IF m = Dummy THEN 1 ELSE 2
NullIndex(m, o) == Base(m) + 2 * o
LinkIndex(m, o) == Base(m) + 2 * o + 1

NullAt(k) == NullIndex(NodeAt(k), Uses(NodeAt(k), k))
LinkAt(k) == LinkIndex(NodeAt(k), Uses(NodeAt(k), k))
ValueAt(k) == Base(NodeAt(k)) + Uses(NodeAt(k), k)
ItemAt(k) == Val(Value(NodeAt(k)), ValueAt(k))

NullEvent(k) == <<NextOf(NodeAt(k)), NullAt(k)>>
LinkEvent(k) == <<NextOf(NodeAt(k)), LinkAt(k)>>
ValueEvent(k) == <<Value(NodeAt(k)), ValueAt(k)>>
HeadEvent(k) == <<HeadPtr, k + 1>>
TailEvent(k) == <<TailPtr, k + 1>>

(* What a thread knows that has got to position k: that the nodes up to k  *)
(* were linked, and that a node used twice was dequeued in between.        *)
Departure(i) == {HeadEvent(i + 1), TailEvent(i + 1)}
Arrival(k) ==
  {NullEvent(k), ValueEvent(k), LinkEvent(k - 1)}
    \cup UNION {Departure(i) : i \in {j \in 0..(k - 1) : NodeAt(j) = NodeAt(k)}}
Knowledge(k) == UNION {Arrival(j) : j \in 1..k}

Making(m) == \E t \in Thread : loc[t].node = m /\ pc[t] \in MakingLabel
Ready(m) == \E t \in Thread : loc[t].node = m /\ pc[t] \in ReadyLabel
Holds(t, m) ==
  \/ loc[t].node = m /\ pc[t] \in MakingLabel
  \/ \E i \in 1..MAX_FREELIST : free_lists[t][i] = m
InList(m) == \E k \in HeadPos..End : NodeAt(k) = m

(* The inductive invariant.  Types: of the memory and of the locals.       *)
Local == [node : Node \cup {null}, tmp : Pointer \cup {null}, head : Pointer \cup {null},
          tail : Pointer \cup {null}, next : Pointer \cup {null}, val : Nat]
MSTypes ==
  /\ MemType(MSLoc, Content)
  /\ \A x \in MSLoc : Linear(x)
  /\ \A m \in Node : \A i \in 1..Newest(Value(m)) : Val(Value(m), i) \in Nat
  /\ \A m \in Node : \A i \in 1..Newest(NextOf(m)) : Val(NextOf(m), i) \in Pointer
  /\ rel = [t \in Thread |-> {}]
  /\ pc \in [Thread -> QueueLabel]
  /\ loc \in [Thread -> Local]
  /\ free_lists \in [Thread -> [1..MAX_FREELIST -> Node \cup {null}]]
  /\ enqueues \in 0..MaxEnqueues /\ dequeues \in 0..MaxDequeues

(* Causal: a view holds nothing that has not been written, and nothing of  *)
(* its location that was written later.                                    *)
Causal ==
  /\ \A t \in Thread, x \in MSLoc : <<x, 1>> \in cur[t]
  /\ \A t \in Thread, x \in MSLoc, j \in Nat : <<x, j>> \in cur[t] => j <= Newest(x)
  /\ \A y \in MSLoc : \A i \in 1..Newest(y) : \A x \in MSLoc, j \in Nat :
       <<x, j>> \in hist[y][i].view => j <= Newest(x) /\ (x = y => j < i)

(* Ends: head and tail move from position to position, head stays behind.  *)
(* There is a position for every enqueue() that has linked its node.       *)
Makers == {t \in Thread : pc[t] \in MakingLabel}
Ends ==
  /\ HeadPos \in 0..TailPos
  /\ NodeAt(0) = Dummy
  /\ \A k \in 0..End : NodeAt(k) \in Node
  /\ \A k \in 0..TailPos : Val(TailPtr, k + 1) = Position(k)
  /\ \A k \in 0..HeadPos : Val(HeadPtr, k + 1) = Position(k)
  /\ \A i \in 2..Newest(HeadPtr) : hist[HeadPtr][i].kind = "rmw"
  /\ \A i \in 2..Newest(TailPtr) : hist[TailPtr][i].kind = "rmw"
  /\ End + Cardinality(Makers) = enqueues

(* Nexts: the history of each next is that of the uses of its node.        *)
NextLength(m) ==
  Base(m) - 1 + 2 * Uses(m, End + 1) + (IF Ready(m) THEN 1 ELSE 0)
    - (IF m = NodeAt(End) THEN 1 ELSE 0)
Nexts ==
  /\ \A m \in Node : Newest(NextOf(m)) = NextLength(m)
  /\ \A m \in Node : m # Dummy => Val(NextOf(m), 1) = [ptr |-> POISON, count |-> 0]
  /\ \A m \in Node : \A o \in 0..Newest(NextOf(m)) :
       /\ NullIndex(m, o) <= Newest(NextOf(m)) =>
            Val(NextOf(m), NullIndex(m, o)) = [ptr |-> null, count |-> o]
       /\ LinkIndex(m, o) <= Newest(NextOf(m)) =>
            /\ hist[NextOf(m)][LinkIndex(m, o)].kind = "rmw"
            /\ Val(NextOf(m), LinkIndex(m, o)).count = o + 1
            /\ Val(NextOf(m), LinkIndex(m, o)).ptr \in Node
  /\ \A k \in 0..(End - 1) : Val(NextOf(NodeAt(k)), LinkAt(k)).ptr = NodeAt(k + 1)

(* Items: every use has an item of its own, and those before head are out. *)
ValueLength(m) == Base(m) - 1 + Uses(m, End + 1) + (IF Making(m) THEN 1 ELSE 0)
Items ==
  /\ \A m \in Node : Newest(Value(m)) = ValueLength(m)
  /\ \A m \in Node : \A i \in 2..Newest(Value(m)) : Val(Value(m), i) \in 1..enqueues
  /\ \A m, p \in Node : \A i \in 2..Newest(Value(m)), j \in 2..Newest(Value(p)) :
       Val(Value(m), i) = Val(Value(p), j) => m = p /\ i = j
  /\ out = [k \in 1..HeadPos |-> ItemAt(k)]

(* Apart: a node is once in the list, or in one place of one thread.       *)
Apart ==
  /\ \A j, k \in HeadPos..End : NodeAt(j) = NodeAt(k) => j = k
  /\ \A t \in Thread, m \in Node : Holds(t, m) => ~InList(m)
  /\ \A t, u \in Thread, m \in Node : Holds(t, m) /\ Holds(u, m) => t = u
  /\ \A t \in Thread : \A i, j \in 1..MAX_FREELIST :
       free_lists[t][i] = free_lists[t][j] /\ free_lists[t][i] # null => i = j
  /\ \A t \in Thread : pc[t] \in MakingLabel =>
       loc[t].node \in Node /\ \A i \in 1..MAX_FREELIST : free_lists[t][i] # loc[t].node
  /\ \A t \in Thread : pc[t] \notin EnqueueLabel => loc[t].node = null

(* Owned: who holds a node has seen its fields, and its departures.        *)
Owns(t, m) ==
  /\ <<NextOf(m), Newest(NextOf(m))>> \in cur[t]
  /\ <<Value(m), Newest(Value(m))>> \in cur[t]
  /\ \A p \in 0..End : NodeAt(p) = m =>
       p < HeadPos /\ Knowledge(p + 1) \subseteq cur[t] /\ Departure(p) \subseteq cur[t]
Owned == \A t \in Thread, m \in Node : Holds(t, m) => Owns(t, m)

(* Published: a pointer to a node carries what leads to it.  What is written *)
(* to a next after its link carries the departure of the node.             *)
Published ==
  /\ \A k \in 1..TailPos : Knowledge(k) \subseteq hist[TailPtr][k + 1].view
  /\ \A k \in 1..HeadPos :
       Knowledge(k) \cup {TailEvent(k)} \subseteq hist[HeadPtr][k + 1].view
  /\ \A k \in 0..(End - 1) : \A i \in LinkAt(k)..Newest(NextOf(NodeAt(k))) :
       /\ Knowledge(k + 1) \subseteq hist[NextOf(NodeAt(k))][i].view \cup {LinkEvent(k)}
       /\ i > LinkAt(k) => Departure(k) \subseteq hist[NextOf(NodeAt(k))][i].view

(* Closures: who has seen a link has seen those before it, but for one     *)
(* that a compare_exchange has just come across without acquiring.         *)
Closed(V) ==
  \A k \in 0..(End - 1) : \A j \in 0..(k - 1) : LinkEvent(k) \in V => LinkEvent(j) \in V
Closures ==
  /\ \A t \in Thread : \A k \in 0..(End - 1) : \A j \in 0..(k - 1) :
       LinkEvent(k) \in cur[t] =>
         \/ LinkEvent(j) \in cur[t]
         \/ pc[t] = "helpNext" /\ NodeAt(k) = loc[t].tail.ptr
  /\ \A x \in MSLoc : \A i \in 1..Newest(x) : Closed(hist[x][i].view \cup Upto(x, i))

(* Reading: what the locals of a call stand for.  A position is p of tail  *)
(* for enqueue(), h of head and q of tail for dequeue().                   *)
TailRead(t, p) ==
  /\ loc[t].tail = Position(p) /\ TailEvent(p) \in cur[t] /\ Knowledge(p) \subseteq cur[t]
  /\ pc[t] = "recheckTail" =>
       \/ loc[t].next = Val(NextOf(NodeAt(p)), NullAt(p))
       \/ p < End /\ LinkEvent(p) \in cur[t] /\ loc[t].next.ptr # null
       \/ TailEvent(p + 1) \in cur[t]
  /\ pc[t] = "link" => loc[t].next = Val(NextOf(NodeAt(p)), NullAt(p))
  /\ pc[t] = "helpNext" => p < End /\ LinkEvent(p) \in cur[t]
  /\ pc[t] = "helpTail" =>
       /\ p < End /\ Knowledge(p + 1) \subseteq cur[t]
       /\ loc[t].next.ptr = NodeAt(p + 1) \/ p < HeadPos
  /\ pc[t] = "swingTail" =>
       p < End /\ Knowledge(p + 1) \subseteq cur[t] /\ loc[t].node = NodeAt(p + 1)
HeadRead(t, h, q) ==
  /\ loc[t].head = Position(h) /\ HeadEvent(h) \in cur[t] /\ TailEvent(h) \in cur[t]
  /\ Knowledge(h) \subseteq cur[t]
  /\ pc[t] # "deqTail" =>
       /\ h <= q /\ loc[t].tail = Position(q)
       /\ \A j \in 0..q : TailEvent(j) \in cur[t]
       /\ Knowledge(q) \subseteq cur[t]
  /\ pc[t] = "recheckHead" =>
       /\ loc[t].next.ptr # POISON
       /\ \/ loc[t].next.ptr = null /\ q = h /\ LinkEvent(h) \notin cur[t]
          \/ h < End /\ loc[t].next.ptr = NodeAt(h + 1) /\ Knowledge(h + 1) \subseteq cur[t]
          \/ HeadEvent(h + 1) \in cur[t]
  /\ pc[t] \in {"deqHelp", "value", "unlink"} =>
       h < End /\ loc[t].next.ptr = NodeAt(h + 1) /\ Knowledge(h + 1) \subseteq cur[t]
  /\ pc[t] = "deqHelp" => q = h
  /\ pc[t] \in {"value", "unlink"} => h < q
  /\ pc[t] = "unlink" => loc[t].val \in 1..enqueues /\ (loc[t].val = ItemAt(h + 1) \/ h < HeadPos)
Locals(t) ==
  /\ pc[t] = "initNext" => loc[t].tmp = Val(NextOf(loc[t].node), Newest(NextOf(loc[t].node)))
  /\ pc[t] \in TailLabel => \E p \in 0..TailPos : TailRead(t, p)
  /\ pc[t] \in HeadLabel => \E h \in 0..HeadPos, q \in 0..TailPos : HeadRead(t, h, q)
Reading == \A t \in Thread : Locals(t)

MSInv ==
  MSTypes /\ Causal /\ Ends /\ Nexts /\ Items /\ Apart /\ Owned /\ Published /\ Closures /\ Reading

-----------------------------------------------------------------------------
(* The locations are different.                                            *)
LEMMA QueueLocations ==
  /\ HeadPtr \in MSLoc /\ TailPtr \in MSLoc /\ HeadPtr # TailPtr
  /\ Dummy \in Node
  /\ \A m \in Node : /\ NextOf(m) \in MSLoc \ {HeadPtr, TailPtr}
                     /\ Value(m) \in MSLoc \ {HeadPtr, TailPtr}
  /\ \A m, p : NextOf(m) # Value(p)
  /\ \A m, p : NextOf(m) # HeadPtr /\ NextOf(m) # TailPtr
  /\ \A m, p : Value(m) # HeadPtr /\ Value(m) # TailPtr
  /\ \A m, p : NextOf(m) = NextOf(p) => m = p
  /\ \A m, p : Value(m) = Value(p) => m = p
<1>1. /\ Len(HeadPtr) = 1 /\ HeadPtr[1] = "head" /\ Len(TailPtr) = 1 /\ TailPtr[1] = "tail"
  BY DEF HeadPtr, TailPtr
<1>2. \A k : Len(NextOf(k)) = 2 /\ NextOf(k)[1] = "next" /\ NextOf(k)[2] = k
  BY DEF NextOf
<1>3. \A k : Len(Value(k)) = 2 /\ Value(k)[1] = "value" /\ Value(k)[2] = k
  BY DEF Value
<1>4. Dummy \in Node
  BY DEF Node
<1> QED
  BY <1>1, <1>2, <1>3, <1>4 DEF MSLoc

(* The histories are sequences of at least one message.                    *)
LEMMA QueueLengths ==
  ASSUME MSTypes, NEW x \in MSLoc
  PROVE  Newest(x) \in Nat /\ Newest(x) >= 1 /\ hist[x] \in Seq(Messages(MSLoc, Content))
BY LenProperties DEF MSTypes, MemType, Newest

(* How often a node was used before a position.                            *)
UsesLaw ==
  /\ \A m : Uses(m, 0) = 0
  /\ \A m : \A k \in Nat : Uses(m, k) <= k
  /\ \A m : \A k \in Nat : Uses(m, k) \in Nat
  /\ \A m : \A k \in Nat : Uses(m, k + 1) = Uses(m, k) + (IF NodeAt(k) = m THEN 1 ELSE 0)
  /\ \A m : \A j, k \in Nat : j <= k => Uses(m, j) <= Uses(m, k)

LEMMA UsesStep == UsesLaw
<1> DEFINE S(m, k) == {j \in 0..(k - 1) : NodeAt(j) = m}
<1>1. ASSUME NEW m, NEW k \in Nat
      PROVE  IsFiniteSet(S(m, k))
  <2>1. IsFiniteSet(0..(k - 1)) /\ S(m, k) \in SUBSET (0..(k - 1))
    BY FS_Interval
  <2> QED
    BY <2>1, FS_Subset
<1>2. ASSUME NEW m
      PROVE  S(m, 0) = {}
  OBVIOUS
<1>3. ASSUME NEW m, NEW k \in Nat
      PROVE  /\ S(m, k + 1) = IF NodeAt(k) = m THEN S(m, k) \cup {k} ELSE S(m, k)
             /\ k \notin S(m, k)
  <2>1. 0..((k + 1) - 1) = (0..(k - 1)) \cup {k}
    OBVIOUS
  <2> QED
    BY <2>1
<1>4. ASSUME NEW m, NEW j \in Nat, NEW k \in Nat, j <= k
      PROVE  S(m, j) \subseteq S(m, k)
  BY <1>4
<1>5. \A m : \A k \in Nat : Uses(m, k) = Cardinality(S(m, k))
  BY DEF Uses
<1> HIDE DEF S
<1>6. \A m : \A k \in Nat : Cardinality(S(m, k)) \in Nat
  BY <1>1, FS_CardinalityType
<1>7. \A m : \A k \in Nat :
        Cardinality(S(m, k + 1)) = Cardinality(S(m, k)) + (IF NodeAt(k) = m THEN 1 ELSE 0)
  <2>1. ASSUME NEW m, NEW k \in Nat
        PROVE  Cardinality(S(m, k + 1)) = Cardinality(S(m, k)) + (IF NodeAt(k) = m THEN 1 ELSE 0)
    <3>1. Cardinality(S(m, k) \cup {k}) = Cardinality(S(m, k)) + 1
      BY <1>1, <1>3, FS_AddElement
    <3>2. Cardinality(S(m, k)) \in Nat
      BY <1>6
    <3>3. NodeAt(k) # m => S(m, k + 1) = S(m, k)
      BY <1>3
    <3>4. NodeAt(k) = m => S(m, k + 1) = S(m, k) \cup {k}
      BY <1>3
    <3>5. CASE NodeAt(k) = m
      BY <3>1, <3>4, <3>5
    <3>6. CASE NodeAt(k) # m
      BY <3>2, <3>3, <3>6
    <3> QED
      BY <3>5, <3>6
  <2> QED
    BY <2>1
<1>8. \A m : \A j, k \in Nat : j <= k => Cardinality(S(m, j)) <= Cardinality(S(m, k))
  BY <1>1, <1>4, FS_Subset
<1>9. \A m : Cardinality(S(m, 0)) = 0
  BY <1>2, FS_EmptySet
<1>10. \A m : \A k \in Nat : Cardinality(S(m, k)) <= k
  <2>1. ASSUME NEW m, NEW k \in Nat
        PROVE  Cardinality(S(m, k)) <= k
    <3>1. IsFiniteSet(0..(k - 1)) /\ Cardinality(0..(k - 1)) = k
      <4>1. 0 \in Int /\ k - 1 \in Int
        OBVIOUS
      <4>2. IsFiniteSet(0..(k - 1)) /\ Cardinality(0..(k - 1)) = IF 0 > k - 1 THEN 0 ELSE k - 1 - 0 + 1
        BY <4>1, FS_Interval
      <4> QED
        BY <4>2
    <3>2. S(m, k) \in SUBSET (0..(k - 1))
      BY DEF S
    <3>3. Cardinality(S(m, k)) <= Cardinality(0..(k - 1))
      BY <3>1, <3>2, FS_Subset
    <3> QED
      BY <3>1, <3>3
  <2> QED
    BY <2>1
<1> QED
  BY <1>5, <1>6, <1>7, <1>8, <1>9, <1>10 DEF UsesLaw

LEMMA UsesStepThen == UsesLaw'
BY UsesStep, PTL

(* Two uses of a node are told apart by how many came before.              *)
LEMMA UsesApart ==
  ASSUME NEW j \in Nat, NEW k \in Nat, j < k
  PROVE  Uses(NodeAt(j), j) + 1 <= Uses(NodeAt(j), k)
<1>1. Uses(NodeAt(j), j + 1) = Uses(NodeAt(j), j) + 1
  BY UsesStep DEF UsesLaw
<1>2. Uses(NodeAt(j), j + 1) <= Uses(NodeAt(j), k)
  BY UsesStep DEF UsesLaw
<1> QED
  BY <1>1, <1>2

-----------------------------------------------------------------------------
(* Positions: head is behind tail, tail is at most one behind the end.     *)
LEMMA Positions ==
  ASSUME MSInv
  PROVE  /\ HeadPos \in Nat /\ TailPos \in Nat /\ End \in Nat
         /\ HeadPos <= TailPos /\ TailPos <= End /\ End <= TailPos + 1
         /\ Newest(HeadPtr) = HeadPos + 1 /\ Newest(TailPtr) = TailPos + 1
         /\ \A k \in 0..End : NodeAt(k) \in Node /\ k \in Nat
         /\ Ptr(TailPtr) = NodeAt(TailPos) /\ Ptr(HeadPtr) = NodeAt(HeadPos)
         /\ AfterTail = Ptr(NextOf(NodeAt(TailPos)))
         /\ AfterTail = null => End = TailPos
         /\ AfterTail # null => End = TailPos + 1 /\ NodeAt(End) = AfterTail
<1>1. /\ Newest(HeadPtr) \in Nat /\ Newest(HeadPtr) >= 1
      /\ Newest(TailPtr) \in Nat /\ Newest(TailPtr) >= 1
  BY QueueLengths, QueueLocations DEF MSInv
<1>2. HeadPos \in 0..TailPos /\ HeadPos = Newest(HeadPtr) - 1 /\ TailPos = Newest(TailPtr) - 1
  BY DEF MSInv, Ends, HeadPos, TailPos
<1>3. End = IF AfterTail = null THEN TailPos ELSE TailPos + 1
  BY DEF End
<1>4. HeadPos \in Nat /\ TailPos \in Nat /\ End \in Nat
  BY <1>1, <1>2, <1>3
<1>5. \A k \in 0..End : NodeAt(k) \in Node /\ k \in Nat
  BY <1>4 DEF MSInv, Ends
<1>6. Val(TailPtr, TailPos + 1) = Position(TailPos) /\ Val(HeadPtr, HeadPos + 1) = Position(HeadPos)
  BY <1>2, <1>4 DEF MSInv, Ends
<1>7. Newest(HeadPtr) = HeadPos + 1 /\ Newest(TailPtr) = TailPos + 1
  BY <1>1, <1>2
<1>8. Ptr(TailPtr) = NodeAt(TailPos) /\ Ptr(HeadPtr) = NodeAt(HeadPos)
  BY <1>6, <1>7 DEF Ptr, Position
<1>9. AfterTail # null => End = TailPos + 1 /\ NodeAt(End) = AfterTail
  <2>1. ~(TailPos + 1 <= TailPos)
    BY <1>4
  <2> QED
    BY <1>3, <2>1 DEF NodeAt
<1>10. AfterTail = null => End = TailPos
  BY <1>3
<1>11. AfterTail = Ptr(NextOf(NodeAt(TailPos)))
  BY <1>8 DEF AfterTail
<1>12. HeadPos <= TailPos /\ TailPos <= End /\ End <= TailPos + 1
  BY <1>2, <1>3, <1>4
<1> QED
  BY <1>4, <1>5, <1>7, <1>8, <1>9, <1>10, <1>11, <1>12

(* The nodes as they were linked are constant-sized indices of the          *)
(* histories of their fields.                                               *)
LEMMA Bases ==
  /\ \A m \in Node : Base(m) \in {1, 2} /\ (Base(m) = 1 <=> m = Dummy)
  /\ \A m, o : LinkIndex(m, o) = Base(m) + 2 * o + 1 /\ NullIndex(m, o) = Base(m) + 2 * o
BY DEF Base, LinkIndex, NullIndex

(* What was written to the fields of a node that was linked.               *)
LEMMA Fields ==
  ASSUME MSInv, NEW k \in 0..End
  PROVE  /\ Uses(NodeAt(k), k) \in Nat
         /\ NullAt(k) \in 1..Newest(NextOf(NodeAt(k)))
         /\ LinkAt(k) = NullAt(k) + 1
         /\ LinkAt(k) <= Newest(NextOf(NodeAt(k))) <=> k < End
         /\ k = End => Newest(NextOf(NodeAt(k))) = NullAt(k)
         /\ k < End => LinkAt(k) \in 1..Newest(NextOf(NodeAt(k)))
         /\ ValueAt(k) \in 1..Newest(Value(NodeAt(k)))
         /\ k > 0 => ValueAt(k) >= 2
<1> DEFINE m == NodeAt(k)
           u == Uses(m, k)
<1>1. End \in Nat /\ k \in Nat /\ m \in Node /\ HeadPos <= End /\ HeadPos \in Nat
  BY Positions
<1>2. u \in Nat /\ Uses(m, k + 1) = u + 1 /\ Uses(m, End + 1) \in Nat /\ u + 1 <= Uses(m, End + 1)
  BY <1>1, UsesStep DEF UsesLaw
<1>3. Base(m) \in {1, 2} /\ NullAt(k) = Base(m) + 2 * u /\ LinkAt(k) = Base(m) + 2 * u + 1
  BY <1>1, Bases DEF NullAt, LinkAt
<1>4. ValueAt(k) = Base(m) + u
  BY DEF ValueAt
<1>5. /\ Newest(NextOf(m)) = NextLength(m) /\ Newest(Value(m)) = ValueLength(m)
      /\ Newest(NextOf(m)) \in Nat /\ Newest(Value(m)) \in Nat
  BY <1>1, QueueLengths, QueueLocations DEF MSInv, Nexts, Items
<1>6. ValueLength(m) >= Base(m) - 1 + Uses(m, End + 1)
  BY <1>2, <1>3 DEF ValueLength
<1>7. ValueAt(k) \in 1..Newest(Value(m))
  BY <1>2, <1>3, <1>4, <1>5, <1>6
<1>8. ASSUME k > 0 PROVE ValueAt(k) >= 2
  <2>1. CASE m = Dummy
    <3>1. NodeAt(0) = Dummy
      BY DEF MSInv, Ends
    <3>2. Uses(m, 1) = 1
      <4>1. Uses(m, 0 + 1) = Uses(m, 0) + 1 /\ Uses(m, 0) = 0
        BY <2>1, <3>1, UsesStep DEF UsesLaw
      <4> QED
        BY <4>1
    <3>3. Uses(m, 1) <= u
      BY <1>1, <1>8, UsesStep DEF UsesLaw
    <3> QED
      BY <1>2, <1>3, <1>4, <3>2, <3>3
  <2>2. CASE m # Dummy
    <3>1. Base(m) = 2
      BY <1>1, <2>2, Bases
    <3> QED
      BY <1>2, <1>4, <3>1
  <2> QED
    BY <2>1, <2>2
<1>9. ASSUME k = End PROVE Newest(NextOf(m)) = NullAt(k)
  <2>1. InList(m)
    BY <1>1, <1>9 DEF InList
  <2>2. ~Ready(m)
    BY <1>1, <2>1 DEF MSInv, Apart, Holds, Ready, ReadyLabel, MakingLabel
  <2>3. NextLength(m) = Base(m) - 1 + 2 * Uses(m, End + 1) + 0 - 1
    BY <1>9, <2>2 DEF NextLength
  <2> QED
    BY <1>2, <1>3, <1>5, <1>9, <2>3
<1>10. ASSUME k < End PROVE LinkAt(k) <= Newest(NextOf(m))
  <2>1. CASE m # NodeAt(End)
    <3>1. NextLength(m) >= Base(m) - 1 + 2 * Uses(m, End + 1)
      BY <1>2, <1>3, <2>1 DEF NextLength
    <3> QED
      BY <1>2, <1>3, <1>5, <3>1
  <2>2. CASE m = NodeAt(End)
    <3>1. NextLength(m) >= Base(m) - 1 + 2 * Uses(m, End + 1) - 1
      BY <1>2, <1>3, <2>2 DEF NextLength
    <3>2. Uses(m, End + 1) = Uses(m, End) + 1 /\ u + 1 <= Uses(m, End) /\ Uses(m, End) \in Nat
      BY <1>1, <1>2, <1>10, <2>2, UsesStep, UsesApart DEF UsesLaw
    <3> QED
      BY <1>2, <1>3, <1>5, <3>1, <3>2
  <2> QED
    BY <2>1, <2>2
<1>12. NullAt(k) \in Nat /\ NullAt(k) >= 1 /\ LinkAt(k) = NullAt(k) + 1
  BY <1>2, <1>3
<1> HIDE DEF u, m
<1>13. LinkAt(k) <= Newest(NextOf(m)) <=> k < End
  BY <1>1, <1>9, <1>5, <1>10, <1>12
<1>14. NullAt(k) \in 1..Newest(NextOf(m))
  BY <1>1, <1>9, <1>5, <1>10, <1>12
<1>15. k < End => LinkAt(k) \in 1..Newest(NextOf(m))
  BY <1>5, <1>10, <1>12
<1> USE DEF u, m
<1> QED
  BY <1>2, <1>7, <1>8, <1>9, <1>12, <1>13, <1>14, <1>15

(* The messages of a next: poison, then null and link in turn.             *)
LEMMA NextValues ==
  ASSUME MSInv, NEW m \in Node, NEW i \in 1..Newest(NextOf(m))
  PROVE  /\ Val(NextOf(m), i) \in Pointer
         /\ \/ i < Base(m) /\ Val(NextOf(m), i).ptr = POISON
            \/ \E o \in Nat : i = NullIndex(m, o) /\ Val(NextOf(m), i) = [ptr |-> null, count |-> o]
            \/ \E o \in Nat : /\ i = LinkIndex(m, o) /\ Val(NextOf(m), i).ptr \in Node
                              /\ Val(NextOf(m), i).count = o + 1
                              /\ hist[NextOf(m)][i].kind = "rmw"
<1> DEFINE x == NextOf(m)
<1>1. Newest(x) \in Nat
  BY QueueLengths, QueueLocations DEF MSInv
<1>2. \A o \in 0..Newest(x) :
        /\ NullIndex(m, o) <= Newest(x) => Val(x, NullIndex(m, o)) = [ptr |-> null, count |-> o]
        /\ LinkIndex(m, o) <= Newest(x) =>
             /\ hist[x][LinkIndex(m, o)].kind = "rmw"
             /\ Val(x, LinkIndex(m, o)).count = o + 1
             /\ Val(x, LinkIndex(m, o)).ptr \in Node
  BY DEF MSInv, Nexts
<1>3. Val(x, i) \in Pointer
  BY DEF MSInv, MSTypes
<1>4. Base(m) \in {1, 2} /\ (Base(m) = 1 <=> m = Dummy)
  BY Bases
<1>5. CASE i < Base(m)
  <2>1. i = 1 /\ m # Dummy
    BY <1>4, <1>5
  <2>2. Val(x, 1) = [ptr |-> POISON, count |-> 0]
    BY <2>1 DEF MSInv, Nexts
  <2>3. Val(x, i).ptr = POISON
    BY <2>1, <2>2
  <2> QED
    BY <1>3, <1>5, <2>3
<1>6. CASE i >= Base(m)
  <2>1. PICK o \in 0..Newest(x) : i = Base(m) + 2 * o \/ i = Base(m) + 2 * o + 1
    <3>1. \E o \in 0..Newest(x) : i - Base(m) = 2 * o \/ i - Base(m) = 2 * o + 1
      <4>1. i - Base(m) \in 0..Newest(x)
        BY <1>1, <1>4, <1>6
      <4>2. \A a \in Nat : (a \div 2) \in 0..a /\ (a = 2 * (a \div 2) \/ a = 2 * (a \div 2) + 1)
        OBVIOUS
      <4> DEFINE a == i - Base(m)
      <4>3. a \in Nat /\ a \in 0..Newest(x)
        BY <1>1, <4>1
      <4> HIDE DEF a
      <4>4. (a \div 2) \in 0..Newest(x)
        BY <1>1, <4>2, <4>3
      <4> QED
        BY <4>2, <4>3, <4>4 DEF a
    <3> QED
      BY <1>4, <3>1
  <2>2. o \in Nat
    BY <1>1
  <2>3. CASE i = Base(m) + 2 * o
    <3>1. i = NullIndex(m, o) /\ NullIndex(m, o) <= Newest(x)
      BY <1>1, <2>3 DEF NullIndex
    <3> QED
      BY <1>2, <1>3, <2>2, <3>1
  <2>4. CASE i = Base(m) + 2 * o + 1
    <3>1. i = LinkIndex(m, o) /\ LinkIndex(m, o) <= Newest(x)
      BY <1>1, <2>4 DEF LinkIndex
    <3> QED
      BY <1>2, <1>3, <2>2, <3>1
  <2> QED
    BY <2>1, <2>3, <2>4
<1> QED
  BY <1>1, <1>4, <1>5, <1>6

(* A null is told apart by its count.                                      *)
LEMMA NullFound ==
  ASSUME MSInv, NEW m \in Node, NEW i \in 1..Newest(NextOf(m)), Val(NextOf(m), i).ptr = null
  PROVE  i = NullIndex(m, Val(NextOf(m), i).count)
<1>1. null # POISON /\ null \notin Node
  BY IndexAssumption
<1>2. PICK o \in Nat : i = NullIndex(m, o) /\ Val(NextOf(m), i) = [ptr |-> null, count |-> o]
  BY <1>1, NextValues
<1> QED
  BY <1>2

(* What was written to next at each position.                              *)
LEMMA FieldValues ==
  ASSUME MSInv, NEW k \in 0..End
  PROVE  /\ Val(NextOf(NodeAt(k)), NullAt(k)) = [ptr |-> null, count |-> Uses(NodeAt(k), k)]
         /\ k < End =>
              /\ Val(NextOf(NodeAt(k)), LinkAt(k)).ptr = NodeAt(k + 1)
              /\ Val(NextOf(NodeAt(k)), LinkAt(k)).count = Uses(NodeAt(k), k) + 1
              /\ hist[NextOf(NodeAt(k))][LinkAt(k)].kind = "rmw"
<1> DEFINE m == NodeAt(k)
           u == Uses(m, k)
           x == NextOf(m)
<1>1. End \in Nat /\ k \in Nat /\ m \in Node
  BY Positions
<1>2. /\ u \in Nat /\ NullAt(k) \in 1..Newest(x) /\ LinkAt(k) = NullAt(k) + 1
      /\ k < End => LinkAt(k) \in 1..Newest(x)
  BY Fields
<1>3. Newest(x) \in Nat
  BY <1>1, QueueLengths, QueueLocations DEF MSInv
<1>4. NullAt(k) = NullIndex(m, u) /\ LinkAt(k) = LinkIndex(m, u)
  BY DEF NullAt, LinkAt
<1>5. u \in 0..Newest(x)
  <2>1. NullAt(k) = Base(m) + 2 * u /\ Base(m) \in {1, 2}
    BY <1>1, <1>4, Bases
  <2> QED
    BY <1>2, <1>3, <2>1
<1>6. /\ NullIndex(m, u) <= Newest(x) => Val(x, NullIndex(m, u)) = [ptr |-> null, count |-> u]
      /\ LinkIndex(m, u) <= Newest(x) =>
           /\ hist[x][LinkIndex(m, u)].kind = "rmw"
           /\ Val(x, LinkIndex(m, u)).count = u + 1
  BY <1>1, <1>5 DEF MSInv, Nexts
<1>7. Val(x, NullAt(k)) = [ptr |-> null, count |-> u]
  BY <1>2, <1>3, <1>4, <1>6
<1>8. ASSUME k < End
      PROVE  /\ Val(x, LinkAt(k)).ptr = NodeAt(k + 1)
             /\ Val(x, LinkAt(k)).count = u + 1
             /\ hist[x][LinkAt(k)].kind = "rmw"
  <2>1. k \in 0..(End - 1)
    BY <1>1, <1>8
  <2>2. Val(x, LinkAt(k)).ptr = NodeAt(k + 1)
    BY <2>1 DEF MSInv, Nexts
  <2>3. LinkIndex(m, u) <= Newest(x)
    BY <1>2, <1>3, <1>4, <1>8
  <2> QED
    BY <1>4, <1>6, <2>2, <2>3
<1> QED
  BY <1>7, <1>8

(* What a thread knows that has got to a position.                         *)
KnowledgeLaw ==
  /\ Knowledge(0) = {}
  /\ \A k \in Nat : Knowledge(k + 1) = Knowledge(k) \cup Arrival(k + 1)
  /\ \A j, k \in Nat : j <= k => Knowledge(j) \subseteq Knowledge(k)
  /\ \A k \in Nat : \A j \in 1..k : Arrival(j) \subseteq Knowledge(k)

LEMMA KnowledgeSteps == KnowledgeLaw
<1>1. \A k \in Nat : 1..(k + 1) = (1..k) \cup {k + 1}
  OBVIOUS
<1> QED
  BY <1>1 DEF KnowledgeLaw, Knowledge

LEMMA KnowledgeStepsThen == KnowledgeLaw'
BY KnowledgeSteps, PTL

LEMMA KnowledgeParts ==
  ASSUME NEW k \in Nat, NEW j \in 1..k
  PROVE  /\ NullEvent(j) \in Knowledge(k) /\ ValueEvent(j) \in Knowledge(k)
         /\ LinkEvent(j - 1) \in Knowledge(k)
         /\ \A i \in 0..(j - 1) : NodeAt(i) = NodeAt(j) => Departure(i) \subseteq Knowledge(k)
<1>1. Arrival(j) \subseteq Knowledge(k)
  BY KnowledgeSteps DEF KnowledgeLaw
<1>2. \A i \in 0..(j - 1) : NodeAt(i) = NodeAt(j) => Departure(i) \subseteq Arrival(j)
  BY DEF Arrival
<1> QED
  BY <1>1, <1>2 DEF Arrival

(* There are as many positions as calls of enqueue(), but for those that   *)
(* have not linked their node yet.                                         *)
LEMMA Bounded ==
  ASSUME MSInv
  PROVE  /\ End <= enqueues /\ enqueues \in Nat /\ enqueues <= MaxEnqueues /\ End \in Nat
         /\ \A t \in Thread : pc[t] \in MakingLabel => End + 1 <= enqueues
<1>1. IsFiniteSet(Makers)
  <2>1. Makers \in SUBSET Thread
    BY DEF Makers
  <2> QED
    BY <2>1, MSQueueAssumption, FS_Subset
<1>2. Cardinality(Makers) \in Nat /\ (Cardinality(Makers) = 0 <=> Makers = {})
  BY <1>1, FS_CardinalityType, FS_EmptySet
<1>3. End + Cardinality(Makers) = enqueues /\ End \in Nat
  BY Positions DEF MSInv, Ends
<1>4. enqueues \in Nat /\ enqueues <= MaxEnqueues
  BY MSQueueAssumption DEF MSInv, MSTypes
<1>5. ASSUME NEW t \in Thread, pc[t] \in MakingLabel
      PROVE  Cardinality(Makers) >= 1
  <2>1. t \in Makers
    BY <1>5 DEF Makers
  <2> QED
    BY <1>2, <2>1
<1> QED
  BY <1>2, <1>3, <1>4, <1>5

(* The events of a location are its indices.                               *)
LEMMA UptoEvents ==
  ASSUME MSInv, NEW x \in MSLoc, NEW i \in 1..Newest(x)
  PROVE  /\ Upto(x, i) = {<<x, j>> : j \in 1..i} /\ Event(x, i) = <<x, i>>
         /\ NextEvent(x) = <<x, Newest(x) + 1>>
<1>1. Newest(x) \in Nat
  BY QueueLengths DEF MSInv
<1>2. \A j \in 1..Newest(x) : hist[x][j].id = j
  BY DEF MSInv, MSTypes, Linear, Newest
<1>3. \A j \in 1..i : j \in 1..Newest(x)
  BY <1>1
<1>4. \A j \in 1..i : Event(x, j) = <<x, j>>
  BY <1>2, <1>3 DEF Event
<1> QED
  BY <1>4 DEF Upto, NextEvent

(* A thread reads nothing older than what it has seen.                     *)
LEMMA NoOlder ==
  ASSUME MSInv, NEW t \in Thread, NEW x \in MSLoc, NEW ord, NEW i \in Readable(t, x, ord),
         NEW j \in Nat, <<x, j>> \in cur[t]
  PROVE  j <= i
<1>1. Newest(x) \in Nat /\ i \in 1..Newest(x) /\ j <= Newest(x)
  BY QueueLengths DEF MSInv, Readable, Causal
<1>2. SUFFICES ASSUME j > i PROVE FALSE
  BY <1>1
<1>3. j \in (i + 1)..Newest(x) /\ j \in 1..Newest(x)
  BY <1>1, <1>2
<1>4. Event(x, j) = <<x, j>>
  BY <1>3, UptoEvents
<1>5. Event(x, j) \notin Seen(t, ord)
  BY <1>3 DEF Readable
<1> QED
  BY <1>4, <1>5 DEF Seen

-----------------------------------------------------------------------------
(* What every step does: histories, views and the list only grow.          *)
Grows ==
  /\ \A x \in MSLoc : /\ Newest(x) <= Newest(x)' /\ Newest(x)' \in Nat
                      /\ \A i \in 1..Newest(x) : hist'[x][i] = hist[x][i]
  /\ \A u \in Thread : cur[u] \subseteq cur'[u]
  /\ HeadPos <= HeadPos' /\ TailPos <= TailPos' /\ End <= End'
  /\ HeadPos' \in Nat /\ TailPos' \in Nat /\ End' \in Nat
  /\ \A k \in 0..End : NodeAt(k)' = NodeAt(k)
  /\ enqueues <= enqueues' /\ enqueues' \in Nat

(* A step moves one end of the list by one, or none.                       *)
Moves ==
  /\ Grows
  /\ \/ HeadPos' = HeadPos /\ End' = End
     \/ HeadPos' = HeadPos /\ End' = End + 1
     \/ HeadPos' = HeadPos + 1 /\ End' = End

(* What was linked keeps its place, and what is known of it.               *)
LEMMA Stable ==
  ASSUME MSInv, Grows, NEW k \in 0..End
  PROVE  /\ \A m : Uses(m, k)' = Uses(m, k) /\ Uses(m, k + 1)' = Uses(m, k + 1)
         /\ NodeAt(k)' = NodeAt(k)
         /\ NullAt(k)' = NullAt(k) /\ LinkAt(k)' = LinkAt(k) /\ ValueAt(k)' = ValueAt(k)
         /\ NullEvent(k)' = NullEvent(k) /\ LinkEvent(k)' = LinkEvent(k)
         /\ ValueEvent(k)' = ValueEvent(k)
         /\ Position(k)' = Position(k) /\ Knowledge(k)' = Knowledge(k)
         /\ ItemAt(k)' = ItemAt(k)
<1>1. End \in Nat /\ \A j \in 0..End : NodeAt(j) \in Node /\ j \in Nat
  BY Positions
<1>2. \A j \in 0..End : NodeAt(j)' = NodeAt(j)
  BY DEF Grows
<1>3. \A j \in 0..End : \A m : Uses(m, j)' = Uses(m, j) /\ Uses(m, j + 1)' = Uses(m, j + 1)
  <2>1. \A j \in 0..End : \A i \in 0..j : i \in 0..End
    BY <1>1
  <2>2. ASSUME NEW j \in 0..End, NEW m
        PROVE  Uses(m, j)' = Uses(m, j) /\ Uses(m, j + 1)' = Uses(m, j + 1)
    <3>1. {i \in 0..(j - 1) : NodeAt(i)' = m} = {i \in 0..(j - 1) : NodeAt(i) = m}
      BY <1>1, <1>2, <2>1
    <3>2. {i \in 0..((j + 1) - 1) : NodeAt(i)' = m} = {i \in 0..((j + 1) - 1) : NodeAt(i) = m}
      BY <1>1, <1>2, <2>1
    <3> QED
      BY <3>1, <3>2 DEF Uses
  <2> QED
    BY <2>2
<1>4. ASSUME NEW j \in 0..End
      PROVE  /\ NullAt(j)' = NullAt(j) /\ LinkAt(j)' = LinkAt(j) /\ ValueAt(j)' = ValueAt(j)
             /\ NullEvent(j)' = NullEvent(j) /\ LinkEvent(j)' = LinkEvent(j)
             /\ ValueEvent(j)' = ValueEvent(j)
  <2>1. /\ NullAt(j)' = NullAt(j) /\ LinkAt(j)' = LinkAt(j) /\ ValueAt(j)' = ValueAt(j)
    BY <1>2, <1>3 DEF NullAt, LinkAt, ValueAt
  <2> QED
    BY <1>2, <2>1 DEF NullEvent, LinkEvent, ValueEvent
<1>5. Knowledge(k)' = Knowledge(k)
  <2>1. ASSUME NEW j \in 1..k
        PROVE  Arrival(j)' = Arrival(j)
    <3>1. j \in 0..End /\ j - 1 \in 0..End /\ \A i \in 0..(j - 1) : i \in 0..End
      BY <1>1
    <3>2. {i \in 0..(j - 1) : NodeAt(i)' = NodeAt(j)'} = {i \in 0..(j - 1) : NodeAt(i) = NodeAt(j)}
      BY <1>2, <3>1
    <3>3. NullEvent(j)' = NullEvent(j) /\ ValueEvent(j)' = ValueEvent(j)
          /\ LinkEvent(j - 1)' = LinkEvent(j - 1)
      BY <1>4, <3>1
    <3>4. UNION {Departure(i) : i \in {h \in 0..(j - 1) : NodeAt(h)' = NodeAt(j)'}}
            = UNION {Departure(i) : i \in {h \in 0..(j - 1) : NodeAt(h) = NodeAt(j)}}
      BY <3>2
    <3> QED
      BY <3>3, <3>4 DEF Arrival, Departure, HeadEvent, TailEvent
  <2> QED
    BY <2>1 DEF Knowledge
<1>6. ItemAt(k)' = ItemAt(k)
  <2>1. ValueAt(k) \in 1..Newest(Value(NodeAt(k))) /\ Value(NodeAt(k)) \in MSLoc
    BY <1>1, Fields, QueueLocations
  <2> QED
    BY <1>2, <1>4, <2>1 DEF ItemAt, Val, Grows
<1> QED
  BY <1>2, <1>3, <1>4, <1>5, <1>6 DEF Position

(* The step is one of t.                                                   *)
Others(t) == \A u \in Thread \ {t} : pc'[u] = pc[u] /\ loc'[u] = loc[u] /\ cur'[u] = cur[u]

(* What a call has read stays true while it waits for its turn.            *)
LEMMA LocalsStay ==
  ASSUME MSInv, Grows, NEW u \in Thread,
         pc'[u] = pc[u], loc'[u] = loc[u], cur'[u] = cur[u],
         pc[u] = "initNext" => hist'[NextOf(loc[u].node)] = hist[NextOf(loc[u].node)]
  PROVE  Locals(u)'
<1>1. End \in Nat /\ TailPos \in Nat /\ HeadPos \in Nat /\ HeadPos <= TailPos /\ TailPos <= End
      /\ HeadPos' \in Nat /\ TailPos' \in Nat /\ End' \in Nat
      /\ HeadPos <= HeadPos' /\ TailPos <= TailPos' /\ End <= End'
  BY Positions DEF Grows
<1>2. \A k \in 0..End : NodeAt(k) \in Node
  BY Positions
<1>3. ASSUME pc[u] = "initNext"
      PROVE  loc'[u].tmp = Val(NextOf(loc[u].node), Newest(NextOf(loc[u].node)))'
  BY <1>3 DEF MSInv, Reading, Locals, Val, Newest
<1>4. ASSUME pc[u] \in TailLabel
      PROVE  \E p \in 0..TailPos' : TailRead(u, p)'
  <2>1. PICK p \in 0..TailPos : TailRead(u, p)
    BY <1>4 DEF MSInv, Reading, Locals
  <2>2. p \in 0..End /\ p \in 0..TailPos' /\ (p < End => p + 1 \in 0..End /\ p < End')
        /\ (p < HeadPos => p < HeadPos')
    BY <1>1
  <2>3. /\ Position(p)' = Position(p) /\ Knowledge(p)' = Knowledge(p)
        /\ LinkEvent(p)' = LinkEvent(p) /\ NodeAt(p)' = NodeAt(p) /\ NullAt(p)' = NullAt(p)
    BY <2>2, Stable
  <2>4. p < End => Knowledge(p + 1)' = Knowledge(p + 1) /\ NodeAt(p + 1)' = NodeAt(p + 1)
    BY <2>2, Stable
  <2>5. Val(NextOf(NodeAt(p)), NullAt(p))' = Val(NextOf(NodeAt(p)), NullAt(p))
    <3>1. NullAt(p) \in 1..Newest(NextOf(NodeAt(p))) /\ NextOf(NodeAt(p)) \in MSLoc
      BY <1>2, <2>2, Fields, QueueLocations
    <3> QED
      BY <2>3, <3>1 DEF Val, Grows
  <2>6. TailRead(u, p)'
    BY <2>1, <2>2, <2>3, <2>4, <2>5 DEF TailRead, TailEvent
  <2> QED
    BY <2>2, <2>6
<1>5. ASSUME pc[u] \in HeadLabel
      PROVE  \E h \in 0..HeadPos', q \in 0..TailPos' : HeadRead(u, h, q)'
  <2>1. PICK h \in 0..HeadPos, q \in 0..TailPos : HeadRead(u, h, q)
    BY <1>5 DEF MSInv, Reading, Locals
  <2>2. /\ h \in 0..End /\ h \in 0..HeadPos' /\ (h < End => h + 1 \in 0..End /\ h < End')
        /\ (h < HeadPos => h < HeadPos') /\ q \in 0..End /\ q \in 0..TailPos'
    BY <1>1
  <2>3. /\ Position(h)' = Position(h) /\ Knowledge(h)' = Knowledge(h)
        /\ LinkEvent(h)' = LinkEvent(h) /\ NodeAt(h)' = NodeAt(h)
        /\ Position(q)' = Position(q) /\ Knowledge(q)' = Knowledge(q)
    BY <2>2, Stable
  <2>4. h < End => /\ Knowledge(h + 1)' = Knowledge(h + 1) /\ NodeAt(h + 1)' = NodeAt(h + 1)
                   /\ ItemAt(h + 1)' = ItemAt(h + 1)
    BY <2>2, Stable
  <2>5. \A v \in 1..enqueues : v \in 1..enqueues'
    <3>1. enqueues \in Nat /\ enqueues' \in Nat /\ enqueues <= enqueues'
      BY Bounded DEF Grows
    <3> QED
      BY <3>1
  <2>6. HeadRead(u, h, q)'
    BY <2>1, <2>2, <2>3, <2>4, <2>5 DEF HeadRead, TailEvent, HeadEvent
  <2> QED
    BY <2>2, <2>6
<1> QED
  BY <1>3, <1>4, <1>5 DEF Locals

(* The step of t leaves the nodes in the hands they are in.                *)
SameRole(t) ==
  /\ pc' \in [Thread -> QueueLabel] /\ loc' \in [Thread -> Local]
  /\ Others(t)
  /\ pc'[t] \in MakingLabel <=> pc[t] \in MakingLabel
  /\ pc'[t] \in ReadyLabel <=> pc[t] \in ReadyLabel
  /\ pc'[t] \in MakingLabel => loc'[t].node = loc[t].node
  /\ pc'[t] \notin EnqueueLabel => loc'[t].node = null
  /\ UNCHANGED <<free_lists, enqueues, out>>
  /\ dequeues' \in 0..MaxDequeues

(* Nor does it touch their fields or the list.                             *)
SameList ==
  /\ \A m \in Node : hist'[NextOf(m)] = hist[NextOf(m)] /\ hist'[Value(m)] = hist[Value(m)]
  /\ HeadPos' = HeadPos /\ End' = End

LEMMA RolesStay ==
  ASSUME MSInv, NEW t \in Thread, SameRole(t)
  PROVE  /\ \A m : Making(m)' = Making(m) /\ Ready(m)' = Ready(m)
         /\ \A u \in Thread : \A m : Holds(u, m)' = Holds(u, m)
         /\ \A u \in Thread : pc'[u] \in MakingLabel <=> pc[u] \in MakingLabel
         /\ \A u \in Thread : pc'[u] \in MakingLabel => loc'[u].node = loc[u].node
         /\ \A u \in Thread : pc'[u] \notin EnqueueLabel => loc'[u].node = null
         /\ Makers' = Makers
<1>1. ASSUME NEW u \in Thread
      PROVE  /\ pc'[u] \in MakingLabel <=> pc[u] \in MakingLabel
             /\ pc'[u] \in ReadyLabel <=> pc[u] \in ReadyLabel
             /\ pc'[u] \in MakingLabel => loc'[u].node = loc[u].node
             /\ pc'[u] \notin EnqueueLabel => loc'[u].node = null
  <2>1. CASE u = t
    BY <2>1 DEF SameRole
  <2>2. CASE u # t
    BY <2>2 DEF SameRole, Others, MSInv, Apart
  <2> QED
    BY <2>1, <2>2
<1>2. ReadyLabel \subseteq MakingLabel
  BY DEF ReadyLabel, MakingLabel
<1>3. free_lists' = free_lists
  BY DEF SameRole
<1>4. \A m : Making(m)' = Making(m)
  BY <1>1 DEF Making
<1>5. \A m : Ready(m)' = Ready(m)
  BY <1>1, <1>2 DEF Ready
<1>6. \A u \in Thread : \A m : Holds(u, m)' = Holds(u, m)
  BY <1>1, <1>3 DEF Holds
<1>7. Makers' = Makers
  BY <1>1 DEF Makers
<1> QED
  BY <1>1, <1>4, <1>5, <1>6, <1>7

(* Such a step keeps what is said of the fields and of their owners.       *)
LEMMA ListStays ==
  ASSUME MSInv, Grows, NEW t \in Thread, SameRole(t), SameList
  PROVE  /\ Nexts' /\ Items' /\ Apart' /\ Owned'
         /\ End' + Cardinality(Makers') = enqueues'
         /\ \A u \in Thread \ {t} : Locals(u)'
         /\ \A k \in 0..(End - 1) : k \in 0..(End' - 1)
<1>1. /\ End \in Nat /\ HeadPos \in Nat /\ HeadPos <= End
      /\ End' = End /\ HeadPos' = HeadPos
      /\ \A k \in 0..End : NodeAt(k) \in Node /\ k \in Nat
  BY Positions DEF SameList
<1>2. /\ \A m : Making(m)' = Making(m) /\ Ready(m)' = Ready(m)
      /\ \A u \in Thread : \A m : Holds(u, m)' = Holds(u, m)
      /\ \A u \in Thread : pc'[u] \in MakingLabel <=> pc[u] \in MakingLabel
      /\ \A u \in Thread : pc'[u] \in MakingLabel => loc'[u].node = loc[u].node
      /\ \A u \in Thread : pc'[u] \notin EnqueueLabel => loc'[u].node = null
      /\ Makers' = Makers
      /\ free_lists' = free_lists /\ enqueues' = enqueues /\ out' = out
  BY RolesStay DEF SameRole
<1>3. \A k \in 0..End : NodeAt(k)' = NodeAt(k)
  BY DEF Grows
<1>0. PICK e \in Nat : e = End
  BY <1>1
<1>4. /\ \A m : Uses(m, e + 1)' = Uses(m, e + 1)
      /\ NodeAt(e)' = NodeAt(e)
      /\ \A k \in 0..End : /\ LinkAt(k)' = LinkAt(k) /\ ItemAt(k)' = ItemAt(k)
                           /\ Knowledge(k)' = Knowledge(k)
  <2>1. e \in 0..End
    BY <1>0
  <2> QED
    BY <2>1, Stable
<1>5. \A m \in Node :
        /\ Newest(NextOf(m))' = Newest(NextOf(m)) /\ Newest(Value(m))' = Newest(Value(m))
        /\ \A i : Val(NextOf(m), i)' = Val(NextOf(m), i) /\ Val(Value(m), i)' = Val(Value(m), i)
        /\ hist'[NextOf(m)] = hist[NextOf(m)]
  BY DEF SameList, Newest, Val
<1>6. Nexts'
  <2>1. \A m \in Node : NextLength(m)' = NextLength(m)
    <3>1. e = End /\ e = End'
      BY <1>0, <1>1
    <3>2. ASSUME NEW m \in Node
          PROVE  (m = NodeAt(End))' <=> m = NodeAt(End)
      BY <1>4, <3>1
    <3>3. ASSUME NEW m \in Node
          PROVE  Uses(m, End + 1)' = Uses(m, End + 1)
      BY <1>4, <3>1
    <3> QED
      BY <1>2, <3>2, <3>3 DEF NextLength
  <2>2. ASSUME NEW k \in 0..(End' - 1)
        PROVE  Val(NextOf(NodeAt(k)), LinkAt(k))'.ptr = NodeAt(k + 1)'
    <3>1. k \in 0..(End - 1) /\ k \in 0..End /\ k + 1 \in 0..End
      BY <1>1
    <3>2. Val(NextOf(NodeAt(k)), LinkAt(k)).ptr = NodeAt(k + 1)
      BY <3>1 DEF MSInv, Nexts
    <3>3. Val(NextOf(NodeAt(k)), LinkAt(k))' = Val(NextOf(NodeAt(k)), LinkAt(k))
      BY <1>1, <1>3, <1>4, <1>5, <3>1 DEF Val
    <3> QED
      BY <1>3, <3>1, <3>2, <3>3
  <2>3. ASSUME NEW m \in Node
        PROVE  /\ Newest(NextOf(m))' = NextLength(m)'
               /\ m # Dummy => Val(NextOf(m), 1)' = [ptr |-> POISON, count |-> 0]
               /\ \A o \in 0..Newest(NextOf(m))' :
                    /\ NullIndex(m, o) <= Newest(NextOf(m))' =>
                         Val(NextOf(m), NullIndex(m, o))' = [ptr |-> null, count |-> o]
                    /\ LinkIndex(m, o) <= Newest(NextOf(m))' =>
                         /\ hist'[NextOf(m)][LinkIndex(m, o)].kind = "rmw"
                         /\ Val(NextOf(m), LinkIndex(m, o))'.count = o + 1
                         /\ Val(NextOf(m), LinkIndex(m, o))'.ptr \in Node
    BY <1>5, <2>1 DEF MSInv, Nexts
  <2> QED
    BY <2>2, <2>3 DEF Nexts
<1>7. Items'
  <2>1. \A m \in Node : ValueLength(m)' = ValueLength(m)
    <3>1. e = End /\ e = End'
      BY <1>0, <1>1
    <3>2. ASSUME NEW m \in Node
          PROVE  Uses(m, End + 1)' = Uses(m, End + 1)
      BY <1>4, <3>1
    <3> QED
      BY <1>2, <3>2 DEF ValueLength
  <2>2. out' = [k \in 1..HeadPos' |-> ItemAt(k)']
    <3>1. \A k \in 1..HeadPos : k \in 0..End
      BY <1>1
    <3>2. \A k \in 1..HeadPos : ItemAt(k)' = ItemAt(k)
      BY <1>4, <3>1
    <3>3. out = [k \in 1..HeadPos |-> ItemAt(k)]
      BY DEF MSInv, Items
    <3> QED
      BY <1>1, <1>2, <3>2, <3>3
  <2>3. \A m \in Node : Newest(Value(m))' = ValueLength(m)'
    BY <1>5, <2>1 DEF MSInv, Items
  <2>4. \A m \in Node : \A i \in 2..Newest(Value(m))' : Val(Value(m), i)' \in 1..enqueues'
    BY <1>2, <1>5 DEF MSInv, Items
  <2>5. \A m, p \in Node : \A i \in 2..Newest(Value(m))', j \in 2..Newest(Value(p))' :
          Val(Value(m), i)' = Val(Value(p), j)' => m = p /\ i = j
    BY <1>5 DEF MSInv, Items
  <2> QED
    BY <2>2, <2>3, <2>4, <2>5 DEF Items
<1>8. \A m : InList(m)' = InList(m)
  <2>1. \A k \in HeadPos..End : k \in 0..End
    BY <1>1
  <2> QED
    BY <1>1, <1>3, <2>1 DEF InList
<1>9. Apart'
  <2>1. \A j, k \in HeadPos'..End' : NodeAt(j)' = NodeAt(k)' => j = k
    <3>1. \A k \in HeadPos..End : k \in 0..End
      BY <1>1
    <3> QED
      BY <1>1, <1>3, <3>1 DEF MSInv, Apart
  <2>2. \A u \in Thread : pc'[u] \in MakingLabel =>
          loc'[u].node \in Node /\ \A i \in 1..MAX_FREELIST : free_lists'[u][i] # loc'[u].node
    BY <1>2 DEF MSInv, Apart
  <2> QED
    BY <1>2, <1>8, <2>1, <2>2 DEF MSInv, Apart
<1>10. Owned'
  <2>1. ASSUME NEW u \in Thread, NEW m \in Node, Holds(u, m)'
        PROVE  Owns(u, m)'
    <3>1. Owns(u, m)
      BY <1>2, <2>1 DEF MSInv, Owned
    <3>2. cur[u] \subseteq cur'[u]
      BY DEF Grows
    <3>3. ASSUME NEW p \in 0..End', NodeAt(p)' = m
          PROVE  p < HeadPos' /\ Knowledge(p + 1)' \subseteq cur'[u] /\ Departure(p) \subseteq cur'[u]
      <4>1. p \in 0..End /\ NodeAt(p) = m
        BY <1>1, <1>3, <3>3
      <4>2. p < HeadPos /\ Knowledge(p + 1) \subseteq cur[u] /\ Departure(p) \subseteq cur[u]
        BY <3>1, <4>1 DEF Owns
      <4>3. p + 1 \in 0..End
        BY <1>1, <4>1, <4>2
      <4> QED
        BY <1>1, <1>4, <3>2, <4>2, <4>3
    <3> QED
      BY <1>5, <3>1, <3>2, <3>3 DEF Owns, Departure, HeadEvent, TailEvent
  <2> QED
    BY <2>1 DEF Owned
<1>11. End' + Cardinality(Makers') = enqueues'
  BY <1>1, <1>2 DEF MSInv, Ends
<1>12. ASSUME NEW u \in Thread \ {t}
       PROVE  Locals(u)'
  <2>1. pc'[u] = pc[u] /\ loc'[u] = loc[u] /\ cur'[u] = cur[u]
    BY DEF SameRole, Others
  <2>2. pc[u] = "initNext" => loc[u].node \in Node
    BY DEF MSInv, Apart, MakingLabel
  <2>3. pc[u] = "initNext" => hist'[NextOf(loc[u].node)] = hist[NextOf(loc[u].node)]
    BY <2>2 DEF SameList
  <2> QED
    BY <2>1, <2>3, LocalsStay
<1> QED
  BY <1>1, <1>6, <1>7, <1>9, <1>10, <1>11, <1>12

-----------------------------------------------------------------------------
(* A load changes what its thread has seen, and nothing else.              *)
LEMMA LoadMemory ==
  ASSUME MSInv, NEW t \in Thread, NEW x \in MSLoc, NEW i, NEW ord, Load(t, x, i, ord)
  PROVE  /\ i \in 1..Newest(x) /\ i \in Readable(t, x, ord) /\ hist' = hist
         /\ MemType(MSLoc, Content)' /\ rel' = rel /\ Causal'
         /\ cur'[t] = cur[t] \cup {<<x, j>> : j \in 1..i}
                        \cup (IF ord \in Acquiring THEN hist[x][i].view ELSE {})
         /\ \A u \in Thread \ {t} : cur'[u] = cur[u]
<1>1. MemType(MSLoc, Content)' /\ i \in 1..Newest(x)
  BY LoadType DEF MSInv, MSTypes
<1>2. /\ i \in Readable(t, x, ord) /\ hist' = hist /\ rel' = rel
      /\ cur' = [cur EXCEPT ![t] = Observe(t, x, i, ord)]
  BY DEF Load
<1>3. Upto(x, i) = {<<x, j>> : j \in 1..i}
  BY <1>1, UptoEvents
<1>4. cur \in [Thread -> SUBSET Events(MSLoc)]
  BY DEF MSInv, MSTypes, MemType
<1>5. /\ cur'[t] = cur[t] \cup {<<x, j>> : j \in 1..i}
                     \cup (IF ord \in Acquiring THEN hist[x][i].view ELSE {})
      /\ \A u \in Thread \ {t} : cur'[u] = cur[u]
  BY <1>2, <1>3, <1>4 DEF Observe
<1>6. Causal'
  <2>1. \A y \in MSLoc : Newest(y)' = Newest(y) /\ hist'[y] = hist[y]
    BY <1>2 DEF Newest
  <2>2. Newest(x) \in Nat
    BY QueueLengths DEF MSInv
  <2>3. ASSUME NEW u \in Thread, NEW y \in MSLoc
        PROVE  /\ <<y, 1>> \in cur'[u]
               /\ \A j \in Nat : <<y, j>> \in cur'[u] => j <= Newest(y)
    <3>1. CASE u # t
      BY <1>5, <3>1 DEF MSInv, Causal
    <3>2. CASE u = t
      <4>1. <<y, 1>> \in cur'[u]
        BY <1>5, <3>2 DEF MSInv, Causal
      <4>2. ASSUME NEW j \in Nat, <<y, j>> \in cur'[u]
            PROVE  j <= Newest(y)
        <5>1. CASE <<y, j>> \in cur[t]
          BY <5>1 DEF MSInv, Causal
        <5>2. CASE <<y, j>> \in {<<x, n>> : n \in 1..i}
          <6>1. y = x /\ j \in 1..i
            BY <5>2
          <6> QED
            BY <1>1, <2>2, <6>1
        <5>3. CASE <<y, j>> \in hist[x][i].view
          BY <1>1, <5>3 DEF MSInv, Causal
        <5> QED
          BY <1>5, <3>2, <4>2, <5>1, <5>2, <5>3
      <4> QED
        BY <4>1, <4>2
    <3> QED
      BY <3>1, <3>2
  <2>4. \A y \in MSLoc : \A n \in 1..Newest(y)' : \A z \in MSLoc, j \in Nat :
          <<z, j>> \in hist'[y][n].view => j <= Newest(z)' /\ (z = y => j < n)
    BY <2>1 DEF MSInv, Causal
  <2> QED
    BY <2>1, <2>3, <2>4 DEF Causal
<1> QED
  BY <1>1, <1>2, <1>5, <1>6

(* The list is the same after a step that writes nothing.                  *)
LEMMA SameHist ==
  ASSUME MSInv, hist' = hist, enqueues' = enqueues,
         \A u \in Thread : cur[u] \subseteq cur'[u]
  PROVE  /\ Grows /\ SameList /\ TailPos' = TailPos
         /\ \A k : NodeAt(k)' = NodeAt(k) /\ Position(k)' = Position(k)
         /\ \A x : Newest(x)' = Newest(x) /\ \A i : Val(x, i)' = Val(x, i)
<1>1. \A x : Newest(x)' = Newest(x) /\ \A i : Val(x, i)' = Val(x, i)
  BY DEF Newest, Val
<1>2. HeadPos' = HeadPos /\ TailPos' = TailPos
  BY DEF HeadPos, TailPos, Newest
<1>3. Ptr(TailPtr)' = Ptr(TailPtr)
  BY DEF Ptr, Newest, Val
<1>4. AfterTail' = AfterTail
  BY <1>3 DEF AfterTail, Ptr, Newest, Val
<1>5. End' = End
  BY <1>2, <1>4 DEF End
<1>6. \A k : NodeAt(k)' = NodeAt(k)
  BY <1>1, <1>2, <1>4 DEF NodeAt
<1>7. \A k : Position(k)' = Position(k)
  BY <1>6 DEF Position
<1>8. \A x \in MSLoc : Newest(x) \in Nat
  BY QueueLengths DEF MSInv
<1>9. /\ HeadPos \in Nat /\ TailPos \in Nat /\ End \in Nat
  BY Positions
<1>10. enqueues \in Nat
  BY Bounded
<1>11. Grows
  BY <1>1, <1>2, <1>5, <1>6, <1>8, <1>9, <1>10 DEF Grows
<1> QED
  BY <1>1, <1>2, <1>5, <1>6, <1>7, <1>11 DEF SameList

(* A link is no event of another location.                                 *)
LEMMA LinksOfNext ==
  ASSUME MSInv, NEW k \in 0..End, NEW x, NEW n, LinkEvent(k) = <<x, n>>
  PROVE  x = NextOf(NodeAt(k)) /\ n = LinkAt(k)
BY DEF LinkEvent

(* A load keeps the invariant if what its thread has read is true, and if  *)
(* it acquires the links it comes across.                                  *)
LEMMA LoadStep ==
  ASSUME MSInv, NEW t \in Thread, NEW x \in MSLoc, NEW i, NEW ord, Load(t, x, i, ord),
         SameRole(t), Locals(t)',
         pc[t] = "helpNext" => x = NextOf(loc[t].tail.ptr) /\ ord \in Acquiring,
         \/ ord \in Acquiring
         \/ \A k \in 0..(End - 1) : LinkEvent(k) \in {<<x, j>> : j \in 1..i} =>
              \/ LinkEvent(k) \in cur[t]
              \/ pc'[t] = "helpNext" /\ NodeAt(k) = loc'[t].tail.ptr
  PROVE  MSInv' /\ Moves
<1>1. /\ i \in 1..Newest(x) /\ i \in Readable(t, x, ord) /\ hist' = hist
      /\ MemType(MSLoc, Content)' /\ rel' = rel /\ Causal'
      /\ cur'[t] = cur[t] \cup {<<x, j>> : j \in 1..i}
                     \cup (IF ord \in Acquiring THEN hist[x][i].view ELSE {})
      /\ \A u \in Thread \ {t} : cur'[u] = cur[u]
  BY LoadMemory
<1>2. \A u \in Thread : cur[u] \subseteq cur'[u]
  BY <1>1
<1>3. /\ Grows /\ SameList /\ TailPos' = TailPos
      /\ \A k : NodeAt(k)' = NodeAt(k) /\ Position(k)' = Position(k)
      /\ \A y : Newest(y)' = Newest(y) /\ \A j : Val(y, j)' = Val(y, j)
  BY <1>1, <1>2, SameHist DEF SameRole
<1>4. /\ Nexts' /\ Items' /\ Apart' /\ Owned'
      /\ End' + Cardinality(Makers') = enqueues'
      /\ \A u \in Thread \ {t} : Locals(u)'
  BY <1>3, ListStays
<1>5. End' = End /\ HeadPos' = HeadPos
  BY <1>3 DEF SameList
<1>6. MSTypes'
  <2>1. \A y \in MSLoc : Linear(y)'
    BY <1>1 DEF MSInv, MSTypes, Linear
  <2>2. rel' = [u \in Thread |-> {}]
    BY <1>1 DEF MSInv, MSTypes
  <2> QED
    BY <1>1, <1>3, <2>1, <2>2 DEF MSInv, MSTypes, SameRole
<1>7. Ends'
  BY <1>1, <1>3, <1>4, <1>5 DEF MSInv, Ends
<1>8. /\ End \in Nat /\ HeadPos <= TailPos /\ TailPos <= End /\ TailPos \in Nat /\ HeadPos \in Nat
  BY Positions
<1>9. \A k \in 0..End : /\ Knowledge(k)' = Knowledge(k) /\ LinkAt(k)' = LinkAt(k)
                        /\ LinkEvent(k)' = LinkEvent(k)
  BY <1>3, Stable
<1>10. Published'
  <2>1. \A k \in 1..TailPos : Knowledge(k)' = Knowledge(k)
    <3>1. \A k \in 1..TailPos : k \in 0..End
      BY <1>8
    <3> QED
      BY <1>9, <3>1
  <2>2. \A k \in 1..HeadPos : k \in 1..TailPos
    BY <1>8
  <2>3. \A k \in 0..(End - 1) : k \in 0..End /\ k + 1 \in 0..End
    BY <1>8
  <2>4. ASSUME NEW k \in 0..(End - 1)
        PROVE  /\ Knowledge(k + 1)' = Knowledge(k + 1) /\ LinkAt(k)' = LinkAt(k)
               /\ LinkEvent(k)' = LinkEvent(k)
    BY <1>9, <2>3
  <2>5. ASSUME NEW k \in 0..(End' - 1), NEW j \in (LinkAt(k)..Newest(NextOf(NodeAt(k))))'
        PROVE  /\ Knowledge(k + 1)' \subseteq (hist[NextOf(NodeAt(k))][j].view \cup {LinkEvent(k)})'
               /\ j > LinkAt(k)' => Departure(k) \subseteq (hist[NextOf(NodeAt(k))][j].view)'
    <3>1. k \in 0..(End - 1) /\ j \in LinkAt(k)..Newest(NextOf(NodeAt(k)))
      BY <1>3, <1>5, <2>4
    <3>2. /\ Knowledge(k + 1) \subseteq hist[NextOf(NodeAt(k))][j].view \cup {LinkEvent(k)}
          /\ j > LinkAt(k) => Departure(k) \subseteq hist[NextOf(NodeAt(k))][j].view
      BY <3>1 DEF MSInv, Published
    <3> QED
      BY <1>1, <1>3, <2>4, <3>1, <3>2
  <2> QED
    BY <1>1, <1>3, <1>5, <2>1, <2>2, <2>5 DEF MSInv, Published, Departure, HeadEvent, TailEvent
<1>11. Closures'
  <2>1. \A k \in 0..(End' - 1) : LinkEvent(k)' = LinkEvent(k)
    <3>1. \A k \in 0..(End' - 1) : k \in 0..End
      BY <1>5, <1>8
    <3> QED
      BY <1>9, <3>1
  <2>2. \A k \in 0..(End' - 1) : \A j \in 0..(k - 1) : j \in 0..(End' - 1)
    BY <1>5, <1>8
  <2>3. \A y \in MSLoc : \A n \in 1..Newest(y)' : Closed(hist[y][n].view \cup Upto(y, n))'
    <3>1. \A y, n : Upto(y, n)' = Upto(y, n)
      BY <1>1 DEF Upto, Event
    <3>2. ASSUME NEW y \in MSLoc, NEW n \in 1..Newest(y)'
          PROVE  Closed(hist[y][n].view \cup Upto(y, n))'
      <4>1. Closed(hist[y][n].view \cup Upto(y, n))
        BY <1>3 DEF MSInv, Closures
      <4> QED
        BY <1>1, <1>5, <2>1, <2>2, <3>1, <4>1 DEF Closed
    <3> QED
      BY <3>2
  <2>4. ASSUME NEW u \in Thread, NEW k \in 0..(End' - 1), NEW j \in 0..(k - 1),
               LinkEvent(k) \in cur'[u]
        PROVE  \/ LinkEvent(j) \in cur'[u]
               \/ pc'[u] = "helpNext" /\ NodeAt(k) = loc'[u].tail.ptr
    <3>1. k \in 0..(End - 1) /\ k \in 0..End /\ j \in 0..(k - 1)
      BY <1>5, <1>8
    <3>2. LinkEvent(k) \in cur[u] =>
            \/ LinkEvent(j) \in cur[u]
            \/ pc[u] = "helpNext" /\ NodeAt(k) = loc[u].tail.ptr
      BY <3>1 DEF MSInv, Closures
    <3>3. CASE u # t
      BY <1>1, <2>4, <3>2, <3>3 DEF SameRole, Others
    <3>4. CASE u = t
      <4>1. Upto(x, i) = {<<x, n>> : n \in 1..i}
        BY <1>1, UptoEvents
      <4>2. ASSUME ord \in Acquiring, LinkEvent(k) \in hist[x][i].view \cup Upto(x, i)
            PROVE  LinkEvent(j) \in cur'[t]
        <5>1. Closed(hist[x][i].view \cup Upto(x, i))
          BY <1>1 DEF MSInv, Closures
        <5>2. LinkEvent(j) \in hist[x][i].view \cup Upto(x, i)
          BY <3>1, <4>2, <5>1 DEF Closed
        <5> QED
          BY <1>1, <4>1, <4>2, <5>2
      <4>3. CASE LinkEvent(k) \in cur[t]
        <5>1. CASE LinkEvent(j) \in cur[t]
          BY <1>2, <3>4, <5>1
        <5>2. CASE pc[t] = "helpNext" /\ NodeAt(k) = loc[t].tail.ptr
          <6>1. LinkEvent(k) = <<x, LinkAt(k)>> /\ ord \in Acquiring
            BY <5>2 DEF LinkEvent
          <6>2. LinkAt(k) \in Nat /\ LinkAt(k) >= 1
            BY <3>1, Fields
          <6>3. LinkAt(k) <= i
            BY <1>1, <4>3, <6>1, <6>2, NoOlder
          <6>4. LinkAt(k) \in 1..i
            BY <1>1, <6>2, <6>3
          <6>5. LinkEvent(k) \in Upto(x, i)
            BY <4>1, <6>1, <6>4
          <6> QED
            BY <3>4, <4>2, <6>1, <6>5
        <5> QED
          BY <3>2, <3>4, <4>3, <5>1, <5>2
      <4>4. CASE LinkEvent(k) \notin cur[t]
        <5>1. CASE ord \in Acquiring
          BY <1>1, <2>4, <3>4, <4>1, <4>2, <4>4, <5>1
        <5>2. CASE ord \notin Acquiring
          BY <1>1, <2>4, <3>1, <3>4, <4>4, <5>2
        <5> QED
          BY <5>1, <5>2
      <4> QED
        BY <4>3, <4>4
    <3> QED
      BY <3>3, <3>4
  <2>5. ASSUME NEW u \in Thread, NEW k \in 0..(End' - 1), NEW j \in 0..(k - 1),
               LinkEvent(k)' \in cur'[u]
        PROVE  \/ LinkEvent(j)' \in cur'[u]
               \/ pc'[u] = "helpNext" /\ NodeAt(k)' = loc'[u].tail.ptr
    <3>1. j \in 0..(End' - 1)
      BY <2>2
    <3> QED
      BY <1>3, <2>1, <2>4, <2>5, <3>1
  <2> QED
    BY <2>3, <2>5 DEF Closures
<1>12. Reading'
  BY <1>4 DEF Reading
<1>13. Moves
  BY <1>3, <1>5 DEF Moves
<1> QED
  BY <1>1, <1>4, <1>6, <1>7, <1>10, <1>11, <1>12, <1>13 DEF MSInv

-----------------------------------------------------------------------------
(* A write of t goes behind the newest message of x.                       *)
Written(t, x, v, view, kind) ==
  /\ Appended(MSLoc, x)
  /\ hist'[x][Newest(x) + 1].id = Newest(x) + 1
  /\ hist'[x][Newest(x) + 1].val = v
  /\ hist'[x][Newest(x) + 1].view = view
  /\ hist'[x][Newest(x) + 1].kind = kind
  /\ cur'[t] = cur[t] \cup Upto(x, Newest(x)) \cup {NextEvent(x)}
  /\ \A u \in Thread \ {t} : cur'[u] = cur[u]
  /\ MemType(MSLoc, Content)' /\ rel' = rel

(* The view a compare_exchange releases.                                   *)
Joined(t, x) == hist[x][Newest(x)].view \cup (cur[t] \cup Upto(x, Newest(x)))

LEMMA Exchanging ==
  ASSUME MSInv, NEW t \in Thread, NEW x \in MSLoc, NEW v \in Content,
         ReadModifyWrite(t, x, Newest(x), v, release)
  PROVE  Written(t, x, v, Joined(t, x), "rmw")
<1>1. MemType(MSLoc, Content)
  BY DEF MSInv, MSTypes
<1>2. release \in Releasing /\ release \notin Acquiring
  BY DEF release, acquire, acq_rel, seq_cst, Releasing, Acquiring
<1>3. Observe(t, x, Newest(x), release) = cur[t] \cup Upto(x, Newest(x))
  BY <1>2 DEF Observe
<1>4. Continued(t, x, Newest(x), release) = Joined(t, x)
  BY <1>2, <1>3 DEF Continued, Joined
<1>5. /\ Appended(MSLoc, x)
      /\ hist'[x][Newest(x) + 1].id = Newest(x) + 1
      /\ hist'[x][Newest(x) + 1].val = v
      /\ hist'[x][Newest(x) + 1].view = Joined(t, x)
      /\ hist'[x][Newest(x) + 1].kind = "rmw"
  BY <1>1, <1>4, ReadModifyWriteAtEnd
<1>6. MemType(MSLoc, Content)'
  BY <1>1, ReadModifyWriteType
<1>7. cur' = [cur EXCEPT ![t] = Observe(t, x, Newest(x), release) \cup {NextEvent(x)}]
      /\ rel' = rel
  BY DEF ReadModifyWrite
<1>8. /\ cur'[t] = cur[t] \cup Upto(x, Newest(x)) \cup {NextEvent(x)}
      /\ \A u \in Thread \ {t} : cur'[u] = cur[u]
  BY <1>1, <1>3, <1>7 DEF MemType
<1> QED
  BY <1>5, <1>6, <1>7, <1>8 DEF Written

LEMMA Storing ==
  ASSUME MSInv, NEW t \in Thread, NEW x \in MSLoc, NEW v \in Content, NEW ord,
         <<x, Newest(x)>> \in cur[t], Store(t, x, v, ord)
  PROVE  Written(t, x, v, Released(t, ord), "store")
<1>1. MemType(MSLoc, Content)
  BY DEF MSInv, MSTypes
<1>2. Event(x, Newest(x)) \in cur[t]
  <2>1. Newest(x) \in 1..Newest(x)
    BY QueueLengths DEF MSInv
  <2> QED
    BY <2>1, UptoEvents
<1>3. /\ Appended(MSLoc, x)
      /\ hist'[x][Newest(x) + 1].id = Newest(x) + 1
      /\ hist'[x][Newest(x) + 1].val = v
      /\ hist'[x][Newest(x) + 1].view = Released(t, ord)
      /\ hist'[x][Newest(x) + 1].kind = "store"
      /\ cur'[t] = cur[t] \cup Upto(x, Newest(x)) \cup {NextEvent(x)}
      /\ \A u \in Thread \ {t} : cur'[u] = cur[u]
  BY <1>1, <1>2, StoreAtEnd
<1>4. MemType(MSLoc, Content)'
  BY <1>1, StoreType
<1>5. rel' = rel
  BY DEF Store
<1> QED
  BY <1>3, <1>4, <1>5 DEF Written

(* What a write leaves of the memory.                                      *)
LEMMA WriteMemory ==
  ASSUME MSInv, NEW t \in Thread, NEW x \in MSLoc, NEW v, NEW view, NEW kind,
         Written(t, x, v, view, kind), view \subseteq Joined(t, x)
  PROVE  /\ Newest(x) \in Nat /\ Newest(x) >= 1 /\ Newest(x)' = Newest(x) + 1
         /\ \A y \in MSLoc \ {x} : hist'[y] = hist[y] /\ Newest(y)' = Newest(y)
         /\ \A i \in 1..Newest(x) : hist'[x][i] = hist[x][i]
         /\ \A y \in MSLoc : Linear(y)'
         /\ \A y \in MSLoc : /\ Newest(y) <= Newest(y)' /\ Newest(y)' \in Nat
                             /\ \A i \in 1..Newest(y) : hist'[y][i] = hist[y][i]
         /\ \A u \in Thread : cur[u] \subseteq cur'[u]
         /\ NextEvent(x) = <<x, Newest(x) + 1>> /\ Upto(x, Newest(x)) = {<<x, j>> : j \in 1..Newest(x)}
         /\ Causal'
<1>1. MemType(MSLoc, Content) /\ \A y \in MSLoc : Linear(y)
  BY DEF MSInv, MSTypes
<1>2. \A y \in MSLoc : Newest(y) \in Nat /\ Newest(y) >= 1
  BY QueueLengths DEF MSInv
<1>3. /\ Newest(x)' = Newest(x) + 1
      /\ \A y \in MSLoc \ {x} : hist'[y] = hist[y] /\ Newest(y)' = Newest(y)
      /\ \A i \in 1..Newest(x) : hist'[x][i] = hist[x][i]
  BY DEF Written, Appended, Newest
<1>4. \A y \in MSLoc : Linear(y)'
  BY <1>1, AppendedLinear DEF Written
<1>5. \A y \in MSLoc : /\ Newest(y) <= Newest(y)' /\ Newest(y)' \in Nat
                       /\ \A i \in 1..Newest(y) : hist'[y][i] = hist[y][i]
  <2>1. ASSUME NEW y \in MSLoc
        PROVE  /\ Newest(y) <= Newest(y)' /\ Newest(y)' \in Nat
               /\ \A i \in 1..Newest(y) : hist'[y][i] = hist[y][i]
    <3>1. CASE y = x
      BY <1>2, <1>3, <3>1
    <3>2. CASE y # x
      BY <1>2, <1>3, <3>2
    <3> QED
      BY <3>1, <3>2
  <2> QED
    BY <2>1
<1>6. \A u \in Thread : cur[u] \subseteq cur'[u]
  BY DEF Written
<1>7. /\ NextEvent(x) = <<x, Newest(x) + 1>>
      /\ Upto(x, Newest(x)) = {<<x, j>> : j \in 1..Newest(x)}
  <2>1. Newest(x) \in 1..Newest(x)
    BY <1>2
  <2> QED
    BY <2>1, UptoEvents
<1>9. ASSUME NEW y \in MSLoc, NEW j \in Nat
      PROVE  /\ <<y, j>> \in cur[t] \cup Upto(x, Newest(x)) => j <= Newest(y)
             /\ <<y, j>> \in Joined(t, x) => j <= Newest(y)
             /\ \A u \in Thread : <<y, j>> \in cur'[u] => j <= Newest(y)'
  <2>1. \A u \in Thread : <<y, j>> \in cur[u] => j <= Newest(y)
    BY DEF MSInv, Causal
  <2>2. <<y, j>> \in Upto(x, Newest(x)) => j <= Newest(y)
    BY <1>2, <1>7
  <2>3. Newest(x) \in 1..Newest(x)
    BY <1>2
  <2>4. <<y, j>> \in hist[x][Newest(x)].view => j <= Newest(y)
    BY <2>3 DEF MSInv, Causal
  <2>5. <<y, j>> = NextEvent(x) => j <= Newest(y)'
    BY <1>2, <1>3, <1>7
  <2>6. ASSUME NEW u \in Thread, <<y, j>> \in cur'[u]
        PROVE  j <= Newest(y)'
    <3>1. <<y, j>> \in cur[u] \/ <<y, j>> \in Upto(x, Newest(x)) \/ <<y, j>> = NextEvent(x)
      BY <2>6 DEF Written
    <3>2. Newest(y) <= Newest(y)' /\ Newest(y)' \in Nat /\ Newest(y) \in Nat
      BY <1>2, <1>5
    <3> QED
      BY <2>1, <2>2, <2>5, <3>1, <3>2
  <2> QED
    BY <2>1, <2>2, <2>4, <2>6 DEF Joined
<1>10. Causal'
  <2>1. \A u \in Thread, y \in MSLoc : <<y, 1>> \in cur'[u]
    BY <1>6 DEF MSInv, Causal
  <2>2. ASSUME NEW y \in MSLoc, NEW n \in 1..Newest(y)', NEW z \in MSLoc, NEW j \in Nat,
               <<z, j>> \in hist'[y][n].view
        PROVE  j <= Newest(z)' /\ (z = y => j < n)
    <3>1. Newest(z) <= Newest(z)' /\ Newest(z)' \in Nat /\ Newest(z) \in Nat /\ Newest(y) \in Nat
      BY <1>2, <1>5
    <3>2. CASE n \in 1..Newest(y)
      <4>1. <<z, j>> \in hist[y][n].view
        BY <1>5, <2>2, <3>2
      <4>2. j <= Newest(z) /\ (z = y => j < n)
        BY <3>2, <4>1 DEF MSInv, Causal
      <4> QED
        BY <3>1, <4>2
    <3>3. CASE n \notin 1..Newest(y)
      <4>1. y = x
        BY <1>3, <3>3
      <4>2. n = Newest(x) + 1
        BY <1>2, <1>3, <3>3, <4>1
      <4>3. <<z, j>> \in Joined(t, x)
        BY <2>2, <4>1, <4>2 DEF Written
      <4>4. j <= Newest(z)
        BY <1>9, <4>3
      <4> QED
        BY <3>1, <4>1, <4>2, <4>4
    <3> QED
      BY <3>2, <3>3
  <2> QED
    BY <1>9, <2>1, <2>2 DEF Causal
<1> QED
  BY <1>2, <1>3, <1>4, <1>5, <1>6, <1>7, <1>10

(* The calls that write have acquired all the links they have seen.        *)
LEMMA ClosedView ==
  ASSUME MSInv, NEW t \in Thread, pc[t] # "helpNext"
  PROVE  Closed(cur[t])
BY DEF MSInv, Closures, Closed

LEMMA ClosedUnion ==
  ASSUME NEW V, NEW W, Closed(V), Closed(W)
  PROVE  Closed(V \cup W)
BY DEF Closed

(* A write keeps what is known of the links.                               *)
LEMMA ClosuresStay ==
  ASSUME MSInv, Grows, NEW t \in Thread, NEW x \in MSLoc, NEW v, NEW view, NEW kind,
         Written(t, x, v, view, kind), view \subseteq Joined(t, x), Others(t),
         Closed(cur[t] \cup Upto(x, Newest(x))), Closed(view \cup Upto(x, Newest(x))),
         End' = End \/ /\ End' = End + 1
                       /\ LinkEvent(End) = NextEvent(x)
                       /\ cur[t] \subseteq view
                       /\ \A j \in 0..(End - 1) : LinkEvent(j) \in cur[t]
  PROVE  Closures'
<1>1. /\ Newest(x) \in Nat /\ Newest(x)' = Newest(x) + 1
      /\ \A y \in MSLoc \ {x} : hist'[y] = hist[y] /\ Newest(y)' = Newest(y)
      /\ \A i \in 1..Newest(x) : hist'[x][i] = hist[x][i]
      /\ \A y \in MSLoc : \A i \in 1..Newest(y) : hist'[y][i] = hist[y][i]
      /\ NextEvent(x) = <<x, Newest(x) + 1>>
      /\ \A y \in MSLoc : Linear(y)'
  BY WriteMemory
<1>2. End \in Nat
  BY Positions
<1>3. \A k \in 0..End : LinkEvent(k)' = LinkEvent(k) /\ NodeAt(k)' = NodeAt(k)
  BY Stable
<1>4. ASSUME NEW k \in 0..(End - 1)
      PROVE  LinkEvent(k) # NextEvent(x)
  <2>1. k \in 0..End /\ k < End
    BY <1>2
  <2>2. LinkAt(k) \in 1..Newest(NextOf(NodeAt(k)))
    BY <2>1, Fields
  <2>3. LinkEvent(k) = <<NextOf(NodeAt(k)), LinkAt(k)>>
    BY DEF LinkEvent
  <2> QED
    BY <1>1, <2>2, <2>3
<1>5. ASSUME NEW k \in 0..(End' - 1)
      PROVE  /\ k \in 0..(End - 1) \/ (k = End /\ LinkEvent(k) = NextEvent(x) /\ End' = End + 1)
             /\ LinkEvent(k)' = LinkEvent(k) /\ NodeAt(k)' = NodeAt(k)
             /\ \A j \in 0..(k - 1) : j \in 0..(End - 1) /\ LinkEvent(j)' = LinkEvent(j)
  <2>1. k \in 0..End /\ \A j \in 0..(k - 1) : j \in 0..(End - 1) /\ j \in 0..End
    BY <1>2
  <2>2. k \in 0..(End - 1) \/ (k = End /\ LinkEvent(k) = NextEvent(x) /\ End' = End + 1)
    BY <1>2
  <2> QED
    BY <1>3, <2>1, <2>2
<1>6. ASSUME NEW y \in MSLoc, NEW n \in 1..Newest(y)
      PROVE  /\ Upto(y, n)' = Upto(y, n)
             /\ NextEvent(x) \notin hist[y][n].view \cup Upto(y, n)
  <2>1. Newest(y) \in Nat /\ \A j \in 1..n : j \in 1..Newest(y)
    BY QueueLengths DEF MSInv
  <2>2. \A j \in 1..n : Event(y, j)' = Event(y, j)
    BY <1>1, <2>1 DEF Event
  <2>3. Upto(y, n) = {<<y, j>> : j \in 1..n}
    BY UptoEvents
  <2>4. <<x, Newest(x) + 1>> \notin hist[y][n].view
    BY <1>1 DEF MSInv, Causal
  <2>5. <<x, Newest(x) + 1>> \notin {<<y, j>> : j \in 1..n}
    BY <1>1, <2>1
  <2> QED
    BY <1>1, <2>2, <2>3, <2>4, <2>5 DEF Upto
<1>7. ASSUME NEW y \in MSLoc, NEW n \in 1..Newest(y)
      PROVE  Closed(hist[y][n].view \cup Upto(y, n))'
  <2>1. Closed(hist[y][n].view \cup Upto(y, n))
    BY DEF MSInv, Closures
  <2>2. (hist[y][n].view \cup Upto(y, n))' = hist[y][n].view \cup Upto(y, n)
    BY <1>1, <1>6
  <2>3. ASSUME NEW k \in 0..(End' - 1), NEW j \in 0..(k - 1),
               LinkEvent(k)' \in (hist[y][n].view \cup Upto(y, n))'
        PROVE  LinkEvent(j)' \in (hist[y][n].view \cup Upto(y, n))'
    <3>1. LinkEvent(k) \in hist[y][n].view \cup Upto(y, n)
      BY <1>5, <2>2, <2>3
    <3>2. k \in 0..(End - 1)
      BY <1>5, <1>6, <3>1
    <3>3. LinkEvent(j) \in hist[y][n].view \cup Upto(y, n)
      BY <2>1, <3>1, <3>2 DEF Closed
    <3> QED
      BY <1>5, <2>2, <3>3
  <2> QED
    BY <2>3 DEF Closed
<1>8. ASSUME NEW V, Closed(V), NEW W, W = V \cup {NextEvent(x)},
             End' = End + 1 => \A j \in 0..(End - 1) : LinkEvent(j) \in V
      PROVE  \A k \in 0..(End' - 1) : \A j \in 0..(k - 1) :
               LinkEvent(k)' \in W => LinkEvent(j)' \in W
  <2>1. ASSUME NEW k \in 0..(End' - 1), NEW j \in 0..(k - 1), LinkEvent(k)' \in W
        PROVE  LinkEvent(j)' \in W
    <3>1. LinkEvent(k) \in W /\ LinkEvent(j)' = LinkEvent(j) /\ j \in 0..(End - 1)
      BY <1>5, <2>1
    <3>2. CASE k \in 0..(End - 1)
      <4>1. LinkEvent(k) \in V
        BY <1>4, <1>8, <3>1, <3>2
      <4>2. LinkEvent(j) \in V
        BY <1>8, <3>2, <4>1 DEF Closed
      <4> QED
        BY <1>8, <3>1, <4>2
    <3>3. CASE k \notin 0..(End - 1)
      BY <1>5, <1>8, <3>1, <3>3
    <3> QED
      BY <3>2, <3>3
  <2> QED
    BY <2>1
<1>9. ASSUME NEW y \in MSLoc, NEW n \in 1..Newest(y)', n \notin 1..Newest(y)
      PROVE  Closed(hist[y][n].view \cup Upto(y, n))'
  <2>1. y = x /\ n = Newest(x) + 1
    <3>1. y = x
      BY <1>1, <1>9
    <3> QED
      BY <1>1, <1>9, <3>1
  <2>2. Upto(y, n)' = Upto(x, Newest(x)) \cup {NextEvent(x)}
    <3>1. \A j \in 1..(Newest(x) + 1) : hist'[x][j].id = j
      BY <1>1 DEF Linear, Newest
    <3>2. \A j \in 1..(Newest(x) + 1) : Event(x, j)' = <<x, j>>
      BY <3>1 DEF Event
    <3>3. Upto(x, Newest(x)) = {<<x, j>> : j \in 1..Newest(x)}
      BY WriteMemory
    <3>4. Upto(y, n)' = {<<x, j>> : j \in 1..(Newest(x) + 1)}
      BY <2>1, <3>2 DEF Upto
    <3>5. 1..(Newest(x) + 1) = (1..Newest(x)) \cup {Newest(x) + 1}
      BY <1>1
    <3> QED
      BY <1>1, <3>3, <3>4, <3>5
  <2>3. (hist[y][n].view \cup Upto(y, n))' = (view \cup Upto(x, Newest(x))) \cup {NextEvent(x)}
    <3>1. hist'[y][n].view = view
      BY <2>1 DEF Written
    <3> QED
      BY <2>2, <3>1
  <2>4. End' = End + 1 => \A j \in 0..(End - 1) : LinkEvent(j) \in view \cup Upto(x, Newest(x))
    BY <1>2
  <2> DEFINE V == view \cup Upto(x, Newest(x))
             W == (hist[y][n].view \cup Upto(y, n))'
  <2>5. Closed(V) /\ W = V \cup {NextEvent(x)}
        /\ (End' = End + 1 => \A j \in 0..(End - 1) : LinkEvent(j) \in V)
    BY <2>3, <2>4
  <2> HIDE DEF V, W
  <2>6. \A k \in 0..(End' - 1) : \A j \in 0..(k - 1) : LinkEvent(k)' \in W => LinkEvent(j)' \in W
    BY <1>8, <2>5
  <2> QED
    BY <2>6 DEF Closed, W
<1>10. ASSUME NEW u \in Thread, NEW k \in 0..(End' - 1), NEW j \in 0..(k - 1),
              LinkEvent(k)' \in cur'[u]
       PROVE  \/ LinkEvent(j)' \in cur'[u]
              \/ pc'[u] = "helpNext" /\ NodeAt(k)' = loc'[u].tail.ptr
  <2>1. CASE u = t
    <3>1. cur'[t] = (cur[t] \cup Upto(x, Newest(x))) \cup {NextEvent(x)}
      BY DEF Written
    <3>2. End' = End + 1 => \A i \in 0..(End - 1) : LinkEvent(i) \in cur[t] \cup Upto(x, Newest(x))
      BY <1>2
    <3> DEFINE V == cur[t] \cup Upto(x, Newest(x))
    <3>3. Closed(V) /\ cur'[t] = V \cup {NextEvent(x)}
          /\ (End' = End + 1 => \A i \in 0..(End - 1) : LinkEvent(i) \in V)
      BY <3>1, <3>2
    <3> HIDE DEF V
    <3>4. \A a \in 0..(End' - 1) : \A b \in 0..(a - 1) :
            LinkEvent(a)' \in cur'[t] => LinkEvent(b)' \in cur'[t]
      BY <1>8, <3>3
    <3> QED
      BY <1>10, <2>1, <3>4
  <2>2. CASE u # t
    <3>1. cur'[u] = cur[u] /\ pc'[u] = pc[u] /\ loc'[u] = loc[u]
      BY <2>2 DEF Others
    <3>2. LinkEvent(k) \in cur[u] /\ LinkEvent(j)' = LinkEvent(j) /\ NodeAt(k)' = NodeAt(k)
      BY <1>5, <1>10, <3>1
    <3>3. k \in 0..(End - 1)
      <4>1. NextEvent(x) \notin cur[u]
        BY <1>1 DEF MSInv, Causal
      <4> QED
        BY <1>5, <3>2, <4>1
    <3>4. LinkEvent(k) \in cur[u] =>
            \/ LinkEvent(j) \in cur[u]
            \/ pc[u] = "helpNext" /\ NodeAt(k) = loc[u].tail.ptr
      BY <3>3 DEF MSInv, Closures
    <3> QED
      BY <3>1, <3>2, <3>4
  <2> QED
    BY <2>1, <2>2
<1>11. \A y \in MSLoc : \A n \in 1..Newest(y)' : Closed(hist[y][n].view \cup Upto(y, n))'
  BY <1>7, <1>9
<1> QED
  BY <1>10, <1>11 DEF Closures

(* What was said of the pointers that were there already stays true.       *)
LEMMA PointersStay ==
  ASSUME MSInv, Grows
  PROVE  /\ NodeAt(0)' = Dummy
         /\ \A k \in 0..End : NodeAt(k)' \in Node
         /\ \A k \in 0..TailPos : Val(TailPtr, k + 1)' = Position(k)'
         /\ \A k \in 0..HeadPos : Val(HeadPtr, k + 1)' = Position(k)'
         /\ \A i \in 2..Newest(HeadPtr) : hist'[HeadPtr][i].kind = "rmw"
         /\ \A i \in 2..Newest(TailPtr) : hist'[TailPtr][i].kind = "rmw"
         /\ \A k \in 1..TailPos : Knowledge(k)' \subseteq hist'[TailPtr][k + 1].view
         /\ \A k \in 1..HeadPos :
              Knowledge(k)' \cup {TailEvent(k)} \subseteq hist'[HeadPtr][k + 1].view
         /\ \A k \in 0..(End - 1) : \A i \in LinkAt(k)..Newest(NextOf(NodeAt(k))) :
              LET view == hist'[NextOf(NodeAt(k))][i].view
              IN  /\ Knowledge(k + 1)' \subseteq view \cup {LinkEvent(k)}
                  /\ i > LinkAt(k) => Departure(k) \subseteq view
<1>1. /\ HeadPos \in Nat /\ TailPos \in Nat /\ End \in Nat /\ HeadPos <= TailPos /\ TailPos <= End
      /\ Newest(HeadPtr) = HeadPos + 1 /\ Newest(TailPtr) = TailPos + 1
      /\ \A k \in 0..End : NodeAt(k) \in Node
  BY Positions
<1>2. \A k \in 0..End : /\ NodeAt(k)' = NodeAt(k) /\ Position(k)' = Position(k)
                        /\ Knowledge(k)' = Knowledge(k)
  BY Stable
<1>3. HeadPtr \in MSLoc /\ TailPtr \in MSLoc /\ \A m \in Node : NextOf(m) \in MSLoc
  BY QueueLocations
<1>4. \A x \in MSLoc : \A i \in 1..Newest(x) : hist'[x][i] = hist[x][i]
  BY DEF Grows
<1>5. ASSUME NEW k \in 0..TailPos
      PROVE  /\ Val(TailPtr, k + 1)' = Position(k)'
             /\ k > 0 => Knowledge(k)' \subseteq hist'[TailPtr][k + 1].view
  <2>1. k \in 0..End /\ k + 1 \in 1..Newest(TailPtr) /\ (k > 0 => k \in 1..TailPos)
    BY <1>1
  <2>2. hist'[TailPtr][k + 1] = hist[TailPtr][k + 1]
    BY <1>3, <1>4, <2>1
  <2> QED
    BY <1>2, <2>1, <2>2 DEF MSInv, Ends, Published, Val
<1>6. ASSUME NEW k \in 0..HeadPos
      PROVE  /\ Val(HeadPtr, k + 1)' = Position(k)'
             /\ k > 0 => Knowledge(k)' \cup {TailEvent(k)} \subseteq hist'[HeadPtr][k + 1].view
  <2>1. k \in 0..End /\ k + 1 \in 1..Newest(HeadPtr) /\ (k > 0 => k \in 1..HeadPos)
    BY <1>1
  <2>2. hist'[HeadPtr][k + 1] = hist[HeadPtr][k + 1]
    BY <1>3, <1>4, <2>1
  <2> QED
    BY <1>2, <2>1, <2>2 DEF MSInv, Ends, Published, Val
<1>7. /\ \A i \in 2..Newest(HeadPtr) : hist'[HeadPtr][i].kind = "rmw"
      /\ \A i \in 2..Newest(TailPtr) : hist'[TailPtr][i].kind = "rmw"
  <2>1. /\ \A i \in 2..Newest(HeadPtr) : i \in 1..Newest(HeadPtr)
        /\ \A i \in 2..Newest(TailPtr) : i \in 1..Newest(TailPtr)
    BY <1>1
  <2> QED
    BY <1>3, <1>4, <2>1 DEF MSInv, Ends
<1>8. ASSUME NEW k \in 0..(End - 1), NEW i \in LinkAt(k)..Newest(NextOf(NodeAt(k)))
      PROVE  /\ Knowledge(k + 1)' \subseteq hist'[NextOf(NodeAt(k))][i].view \cup {LinkEvent(k)}
             /\ i > LinkAt(k) => Departure(k) \subseteq hist'[NextOf(NodeAt(k))][i].view
  <2>1. k \in 0..End /\ k + 1 \in 0..End /\ k < End
    BY <1>1
  <2>2. i \in 1..Newest(NextOf(NodeAt(k))) /\ NextOf(NodeAt(k)) \in MSLoc
    BY <1>1, <1>3, <2>1, Fields
  <2>3. hist'[NextOf(NodeAt(k))][i] = hist[NextOf(NodeAt(k))][i]
    BY <1>4, <2>2
  <2>4. /\ Knowledge(k + 1) \subseteq hist[NextOf(NodeAt(k))][i].view \cup {LinkEvent(k)}
        /\ i > LinkAt(k) => Departure(k) \subseteq hist[NextOf(NodeAt(k))][i].view
    BY DEF MSInv, Published
  <2> QED
    BY <1>2, <2>1, <2>3, <2>4
<1>9. NodeAt(0)' = Dummy
  BY <1>1, <1>2 DEF MSInv, Ends
<1>10. \A k \in 0..End : NodeAt(k)' \in Node
  BY <1>1, <1>2
<1>11. \A k \in 1..TailPos : Knowledge(k)' \subseteq hist'[TailPtr][k + 1].view
  BY <1>5
<1>12. \A k \in 1..HeadPos : Knowledge(k)' \cup {TailEvent(k)} \subseteq hist'[HeadPtr][k + 1].view
  BY <1>6
<1> QED
  BY <1>5, <1>6, <1>7, <1>8, <1>9, <1>10, <1>11, <1>12

(* A pointer to a position has its count.                                  *)
LEMMA Counted ==
  ASSUME MSInv, CountsFit, NEW k \in 0..End
  PROVE  /\ k < CountRange /\ k % CountRange = k
         /\ \A m \in Node : MakePointer(m, k) = [ptr |-> m, count |-> k]
         /\ Position(k) \in Pointer
<1>1. k \in Nat /\ End \in Nat /\ End <= enqueues /\ enqueues \in Nat /\ enqueues <= MaxEnqueues
      /\ NodeAt(k) \in Node /\ MaxEnqueues \in Nat /\ CountRange \in Nat /\ MaxEnqueues < CountRange
  BY Positions, Bounded, MSQueueAssumption DEF CountsFit
<1>2. k < CountRange
  BY <1>1
<1>3. k % CountRange = k
  BY <1>1, <1>2
<1> QED
  BY <1>1, <1>2, <1>3 DEF MakePointer, Position, Pointer

(* Tail moves one position on when it has not reached the end.             *)
LEMMA TailStep ==
  ASSUME MSInv, CountsFit, NEW t \in Thread, NEW p \in 0..TailPos, p < End, NEW n,
         n = NodeAt(p + 1) \/ p < HeadPos, Knowledge(p + 1) \subseteq cur[t],
         CompareExchange(t, TailPtr, Position(p), Successor(Position(p), n), release),
         SameRole(t), Locals(t)', pc[t] # "helpNext"
  PROVE  MSInv' /\ Moves
<1>1. /\ HeadPos \in Nat /\ TailPos \in Nat /\ End \in Nat /\ HeadPos <= TailPos /\ TailPos <= End
      /\ End <= TailPos + 1
      /\ Newest(HeadPtr) = HeadPos + 1 /\ Newest(TailPtr) = TailPos + 1
      /\ \A k \in 0..End : NodeAt(k) \in Node
      /\ AfterTail # null => End = TailPos + 1 /\ NodeAt(End) = AfterTail
      /\ AfterTail = null => End = TailPos
  BY Positions
<1>2. HeadPtr \in MSLoc \ {TailPtr} /\ TailPtr \in MSLoc
      /\ \A m \in Node : NextOf(m) \in MSLoc \ {TailPtr} /\ Value(m) \in MSLoc \ {TailPtr}
  BY QueueLocations
<1>3. PICK i \in Extendable(t, TailPtr, release) :
        /\ Val(TailPtr, i) = Position(p)
        /\ ReadModifyWrite(t, TailPtr, i, Successor(Position(p), n), release)
  BY DEF CompareExchange
<1>4. i = Newest(TailPtr) /\ p = TailPos
  <2>1. i \in 1..Newest(TailPtr) /\ (i < Newest(TailPtr) => hist[TailPtr][i + 1].kind # "rmw")
    BY DEF Extendable, Readable
  <2>2. \A j \in 2..Newest(TailPtr) : hist[TailPtr][j].kind = "rmw"
    BY DEF MSInv, Ends
  <2>3. i = Newest(TailPtr)
    BY <1>1, <2>1, <2>2
  <2>4. TailPos \in 0..TailPos /\ i = TailPos + 1
    BY <1>1, <2>3
  <2>5. Val(TailPtr, TailPos + 1) = Position(TailPos)
    BY <2>4 DEF MSInv, Ends
  <2>6. Position(p).count = p /\ Position(TailPos).count = TailPos
    BY DEF Position
  <2> QED
    BY <1>3, <2>3, <2>4, <2>5, <2>6
<1>5. End = TailPos + 1 /\ n = NodeAt(End) /\ n = AfterTail /\ n \in Node
  BY <1>1, <1>4
<1>6. Successor(Position(p), n) = [ptr |-> n, count |-> End]
  <2>1. End \in 0..End /\ Position(p).count + 1 = End
    BY <1>1, <1>4, <1>5 DEF Position
  <2> QED
    BY <1>5, <2>1, Counted DEF Successor
<1> DEFINE v == [ptr |-> n, count |-> End]
<1>7. v = Position(End) /\ v \in Content
  <2>1. v = Position(End) /\ End \in 0..End
    BY <1>1, <1>5 DEF Position
  <2> QED
    BY <2>1, Counted DEF Content
<1>8. Written(t, TailPtr, v, Joined(t, TailPtr), "rmw")
  BY <1>2, <1>3, <1>4, <1>6, <1>7, Exchanging
<1>9. PICK e \in Nat : e = End
  BY <1>1
<1>10. PICK z \in Nat : z = TailPos
  BY <1>1
<1> HIDE DEF v
<1>11. /\ Newest(TailPtr)' = Newest(TailPtr) + 1
       /\ \A y \in MSLoc \ {TailPtr} : hist'[y] = hist[y] /\ Newest(y)' = Newest(y)
       /\ \A j \in 1..Newest(TailPtr) : hist'[TailPtr][j] = hist[TailPtr][j]
       /\ hist'[TailPtr][Newest(TailPtr) + 1].val = v
       /\ hist'[TailPtr][Newest(TailPtr) + 1].view = Joined(t, TailPtr)
       /\ hist'[TailPtr][Newest(TailPtr) + 1].kind = "rmw"
       /\ \A y \in MSLoc : Linear(y)'
       /\ \A y \in MSLoc : /\ Newest(y) <= Newest(y)' /\ Newest(y)' \in Nat
                           /\ \A j \in 1..Newest(y) : hist'[y][j] = hist[y][j]
       /\ \A u \in Thread : cur[u] \subseteq cur'[u]
       /\ Upto(TailPtr, Newest(TailPtr)) = {<<TailPtr, j>> : j \in 1..Newest(TailPtr)}
       /\ Causal'
  BY <1>2, <1>8, WriteMemory DEF Written
<1>12. TailPos' = e /\ HeadPos' = HeadPos /\ e = z + 1
  BY <1>1, <1>2, <1>5, <1>9, <1>10, <1>11 DEF TailPos, HeadPos
<1>13. Ptr(TailPtr)' = n
  <2>1. Ptr(TailPtr)' = hist'[TailPtr][Newest(TailPtr)'].val.ptr
    BY DEF Ptr, Val
  <2> QED
    BY <1>11, <2>1 DEF v
<1>14. AfterTail' = null
  <2>1. AfterTail' = Ptr(NextOf(n))'
    BY <1>13 DEF AfterTail
  <2>2. Ptr(NextOf(n))' = Ptr(NextOf(n))
    BY <1>2, <1>5, <1>11 DEF Ptr, Val, Newest
  <2>3. e \in 0..End /\ e = End
    BY <1>9
  <2>4. Newest(NextOf(NodeAt(e))) = NullAt(e) /\ Val(NextOf(NodeAt(e)), NullAt(e)).ptr = null
    BY <2>3, Fields, FieldValues
  <2>5. Ptr(NextOf(n)) = null
    BY <1>5, <2>3, <2>4 DEF Ptr
  <2> QED
    BY <2>1, <2>2, <2>5
<1>15. End' = e
  BY <1>12, <1>14 DEF End
<1>16. \A k \in 0..End : NodeAt(k)' = NodeAt(k)
  <2>1. ASSUME NEW k \in 0..End
        PROVE  NodeAt(k)' = NodeAt(k)
    <3>1. NodeAt(k)' = Val(TailPtr, k + 1)'.ptr
      BY <1>9, <1>12 DEF NodeAt
    <3>2. CASE k <= TailPos
      <4>1. NodeAt(k) = Val(TailPtr, k + 1).ptr /\ k + 1 \in 1..Newest(TailPtr)
        BY <1>1, <3>2 DEF NodeAt
      <4> QED
        BY <1>11, <3>1, <4>1 DEF Val
    <3>3. CASE ~(k <= TailPos)
      <4>1. k = End /\ k + 1 = Newest(TailPtr) + 1
        BY <1>1, <1>5, <3>3
      <4>2. Val(TailPtr, k + 1)' = v
        BY <1>11, <4>1 DEF Val
      <4> QED
        BY <1>5, <3>1, <4>1, <4>2 DEF v
    <3> QED
      BY <3>2, <3>3
  <2> QED
    BY <2>1
<1>17. Grows /\ SameList
  <2>1. enqueues' = enqueues /\ enqueues \in Nat
    BY Bounded DEF SameRole
  <2>2. Grows
    BY <1>1, <1>5, <1>9, <1>10, <1>11, <1>12, <1>15, <1>16, <2>1 DEF Grows
  <2>3. SameList
    BY <1>2, <1>9, <1>11, <1>12, <1>15 DEF SameList
  <2> QED
    BY <2>2, <2>3
<1>18. /\ Nexts' /\ Items' /\ Apart' /\ Owned'
       /\ End' + Cardinality(Makers') = enqueues'
       /\ \A u \in Thread \ {t} : Locals(u)'
  BY <1>17, ListStays
<1>19. MSTypes'
  <2>1. rel' = [u \in Thread |-> {}] /\ MemType(MSLoc, Content)'
    BY <1>8 DEF MSInv, MSTypes, Written
  <2>2. \A m \in Node : \A j \in 1..Newest(Value(m))' : Val(Value(m), j)' \in Nat
    BY <1>2, <1>11 DEF MSInv, MSTypes, Val
  <2>3. \A m \in Node : \A j \in 1..Newest(NextOf(m))' : Val(NextOf(m), j)' \in Pointer
    BY <1>2, <1>11 DEF MSInv, MSTypes, Val
  <2> QED
    BY <1>11, <2>1, <2>2, <2>3 DEF MSInv, MSTypes, SameRole
<1>20. /\ NodeAt(0)' = Dummy
       /\ \A k \in 0..End : NodeAt(k)' \in Node
       /\ \A k \in 0..TailPos : Val(TailPtr, k + 1)' = Position(k)'
       /\ \A k \in 0..HeadPos : Val(HeadPtr, k + 1)' = Position(k)'
       /\ \A j \in 2..Newest(HeadPtr) : hist'[HeadPtr][j].kind = "rmw"
       /\ \A j \in 2..Newest(TailPtr) : hist'[TailPtr][j].kind = "rmw"
       /\ \A k \in 1..TailPos : Knowledge(k)' \subseteq hist'[TailPtr][k + 1].view
       /\ \A k \in 1..HeadPos :
            Knowledge(k)' \cup {TailEvent(k)} \subseteq hist'[HeadPtr][k + 1].view
       /\ \A k \in 0..(End - 1) : \A j \in LinkAt(k)..Newest(NextOf(NodeAt(k))) :
            LET view == hist'[NextOf(NodeAt(k))][j].view
            IN  /\ Knowledge(k + 1)' \subseteq view \cup {LinkEvent(k)}
                /\ j > LinkAt(k) => Departure(k) \subseteq view
  BY <1>17, PointersStay
<1>21. Ends'
  <2>1. ASSUME NEW k \in 0..TailPos'
        PROVE  Val(TailPtr, k + 1)' = Position(k)'
    <3>1. CASE k \in 0..TailPos
      BY <1>20, <3>1
    <3>2. CASE k \notin 0..TailPos
      <4>1. k = e /\ k \in 0..End /\ k + 1 = Newest(TailPtr) + 1
        BY <1>1, <1>9, <1>10, <1>12, <3>2
      <4>2. Val(TailPtr, k + 1)' = v
        BY <1>11, <4>1 DEF Val
      <4>3. Position(k)' = Position(k) /\ Position(k) = v
        BY <1>7, <1>9, <1>17, <4>1, Stable
      <4> QED
        BY <4>2, <4>3
    <3> QED
      BY <3>1, <3>2
  <2>2. \A j \in 2..Newest(TailPtr)' : hist'[TailPtr][j].kind = "rmw"
    <3>1. \A j \in 2..Newest(TailPtr)' : j \in 2..Newest(TailPtr) \/ j = Newest(TailPtr) + 1
      BY <1>1, <1>11
    <3> QED
      BY <1>11, <1>20, <3>1
  <2>3. \A j \in 2..Newest(HeadPtr)' : hist'[HeadPtr][j].kind = "rmw"
    BY <1>2, <1>11, <1>20
  <2>4. HeadPos' \in 0..TailPos'
    BY <1>1, <1>10, <1>12
  <2>5. \A k \in 0..End' : NodeAt(k)' \in Node
    BY <1>9, <1>15, <1>20
  <2>6. \A k \in 0..HeadPos' : Val(HeadPtr, k + 1)' = Position(k)'
    BY <1>12, <1>20
  <2> QED
    BY <1>18, <1>20, <2>1, <2>2, <2>3, <2>4, <2>5, <2>6 DEF Ends
<1>22. Published'
  <2>1. ASSUME NEW k \in 1..TailPos'
        PROVE  Knowledge(k)' \subseteq hist'[TailPtr][k + 1].view
    <3>1. CASE k \in 1..TailPos
      BY <1>20, <3>1
    <3>2. CASE k \notin 1..TailPos
      <4>1. k = p + 1 /\ k \in 0..End /\ k + 1 = Newest(TailPtr) + 1
        BY <1>1, <1>4, <1>9, <1>10, <1>12, <3>2
      <4>2. Knowledge(k)' = Knowledge(k)
        BY <1>17, <4>1, Stable
      <4>3. cur[t] \subseteq hist'[TailPtr][k + 1].view
        BY <1>11, <4>1 DEF Joined
      <4> QED
        BY <4>1, <4>2, <4>3
    <3> QED
      BY <3>1, <3>2
  <2>2. ASSUME NEW k \in 0..(End' - 1), NEW j \in (LinkAt(k)..Newest(NextOf(NodeAt(k))))'
        PROVE  /\ Knowledge(k + 1)' \subseteq (hist[NextOf(NodeAt(k))][j].view \cup {LinkEvent(k)})'
               /\ j > LinkAt(k)' => Departure(k) \subseteq (hist[NextOf(NodeAt(k))][j].view)'
    <3>1. k \in 0..(End - 1) /\ k \in 0..End
      BY <1>9, <1>15
    <3>2. NodeAt(k)' = NodeAt(k) /\ LinkAt(k)' = LinkAt(k) /\ LinkEvent(k)' = LinkEvent(k)
      BY <1>17, <3>1, Stable
    <3>3. Newest(NextOf(NodeAt(k)))' = Newest(NextOf(NodeAt(k)))
      BY <1>1, <1>2, <1>11, <3>1, <3>2
    <3>4. j \in LinkAt(k)..Newest(NextOf(NodeAt(k)))
      BY <3>2, <3>3
    <3> QED
      BY <1>20, <3>1, <3>2, <3>4
  <2>3. \A k \in 1..HeadPos' :
          Knowledge(k)' \cup {TailEvent(k)} \subseteq hist'[HeadPtr][k + 1].view
    BY <1>12, <1>20
  <2> QED
    BY <2>1, <2>2, <2>3 DEF Published, Departure, HeadEvent, TailEvent
<1>23. Closures'
  <2>1. Closed(cur[t])
    BY ClosedView
  <2>2. Closed(Upto(TailPtr, Newest(TailPtr)))
    <3>1. \A k \in 0..(End - 1) : LinkEvent(k) \notin Upto(TailPtr, Newest(TailPtr))
      BY <1>11, QueueLocations DEF LinkEvent
    <3> QED
      BY <3>1 DEF Closed
  <2>3. Closed(hist[TailPtr][Newest(TailPtr)].view \cup Upto(TailPtr, Newest(TailPtr)))
    BY <1>1, <1>2 DEF MSInv, Closures
  <2>4. Closed(cur[t] \cup Upto(TailPtr, Newest(TailPtr)))
    BY <2>1, <2>2, ClosedUnion
  <2>5. Closed(Joined(t, TailPtr) \cup Upto(TailPtr, Newest(TailPtr)))
    <3>1. Joined(t, TailPtr) \cup Upto(TailPtr, Newest(TailPtr))
            = (hist[TailPtr][Newest(TailPtr)].view \cup Upto(TailPtr, Newest(TailPtr)))
                \cup (cur[t] \cup Upto(TailPtr, Newest(TailPtr)))
      BY DEF Joined
    <3> QED
      BY <2>3, <2>4, <3>1, ClosedUnion
  <2>6. End' = End /\ Others(t)
    BY <1>9, <1>15 DEF SameRole
  <2> QED
    BY <1>2, <1>8, <1>17, <2>4, <2>5, <2>6, ClosuresStay
<1>24. Reading'
  BY <1>18 DEF Reading
<1>25. Moves
  BY <1>9, <1>12, <1>15, <1>17 DEF Moves
<1> QED
  BY <1>11, <1>18, <1>19, <1>21, <1>22, <1>23, <1>24, <1>25 DEF MSInv

-----------------------------------------------------------------------------
(* What others hold and have read does not change when t writes elsewhere. *)
LEMMA OthersRead ==
  ASSUME MSInv, Grows, NEW t \in Thread, Others(t),
         \A u \in Thread \ {t}, m \in Node : Holds(u, m) => hist'[NextOf(m)] = hist[NextOf(m)]
  PROVE  \A u \in Thread \ {t} : Locals(u)'
<1>1. ASSUME NEW u \in Thread \ {t}
      PROVE  Locals(u)'
  <2>1. pc'[u] = pc[u] /\ loc'[u] = loc[u] /\ cur'[u] = cur[u]
    BY DEF Others
  <2>2. pc[u] = "initNext" => loc[u].node \in Node /\ Holds(u, loc[u].node)
    BY DEF MSInv, Apart, MakingLabel, Holds
  <2> QED
    BY <2>1, <2>2, LocalsStay
<1> QED
  BY <1>1

LEMMA OwnersStay ==
  ASSUME MSInv, Grows, NEW u \in Thread, NEW m \in Node, Holds(u, m),
         hist'[NextOf(m)] = hist[NextOf(m)], hist'[Value(m)] = hist[Value(m)],
         \A p \in 0..End' : p \in 0..End \/ NodeAt(p)' # m
  PROVE  Owns(u, m)'
<1>1. Owns(u, m)
  BY DEF MSInv, Owned
<1>2. cur[u] \subseteq cur'[u] /\ HeadPos <= HeadPos' /\ HeadPos' \in Nat
  BY DEF Grows
<1>3. HeadPos \in Nat /\ End \in Nat /\ HeadPos <= End
  BY Positions
<1>4. ASSUME NEW p \in 0..End', NodeAt(p)' = m
      PROVE  p < HeadPos' /\ Knowledge(p + 1)' \subseteq cur'[u] /\ Departure(p) \subseteq cur'[u]
  <2>1. p \in 0..End
    BY <1>4
  <2>2. NodeAt(p) = m
    BY <1>4, <2>1 DEF Grows
  <2>3. p < HeadPos /\ Knowledge(p + 1) \subseteq cur[u] /\ Departure(p) \subseteq cur[u]
    BY <1>1, <2>1, <2>2 DEF Owns
  <2>4. p + 1 \in 0..End
    BY <1>3, <2>1, <2>3
  <2>5. Knowledge(p + 1)' = Knowledge(p + 1)
    BY <2>4, Stable
  <2> QED
    BY <1>2, <1>3, <2>1, <2>3, <2>5
<1>5. Newest(NextOf(m))' = Newest(NextOf(m)) /\ Newest(Value(m))' = Newest(Value(m))
  BY DEF Newest
<1> QED
  BY <1>1, <1>2, <1>4, <1>5 DEF Owns, Departure, HeadEvent, TailEvent

-----------------------------------------------------------------------------
(* The node is linked behind the last one of the list.                     *)
LEMMA LinkFacts ==
  ASSUME MSInv, CountsFit, NEW t \in Thread, Enqueue_Link(t)
  PROVE  /\ End = TailPos /\ AfterTail = null /\ loc[t].tail = Position(End)
         /\ TailEvent(End) \in cur[t] /\ Knowledge(End) \subseteq cur[t]
         /\ loc[t].node \in Node /\ Holds(t, loc[t].node) /\ Ready(loc[t].node)
         /\ Newest(NextOf(NodeAt(End))) = NullAt(End)
         /\ Written(t, NextOf(NodeAt(End)),
                    [ptr |-> loc[t].node, count |-> Uses(NodeAt(End), End) + 1],
                    Joined(t, NextOf(NodeAt(End))), "rmw")
<1> DEFINE n == loc[t].node
<1>1. pc[t] = "link"
  BY DEF Enqueue_Link, Goto
<1>2. PICK p \in 0..TailPos : TailRead(t, p)
  BY <1>1 DEF MSInv, Reading, Locals, TailLabel
<1>3. /\ loc[t].tail = Position(p) /\ TailEvent(p) \in cur[t] /\ Knowledge(p) \subseteq cur[t]
      /\ loc[t].next = Val(NextOf(NodeAt(p)), NullAt(p))
  BY <1>1, <1>2 DEF TailRead
<1>4. /\ TailPos \in Nat /\ End \in Nat /\ TailPos <= End /\ p \in 0..End
      /\ \A k \in 0..End : NodeAt(k) \in Node
      /\ AfterTail # null => End = TailPos + 1
  BY Positions
<1>5. n \in Node /\ Holds(t, n) /\ Ready(n)
  BY <1>1 DEF MSInv, Apart, Holds, Ready, MakingLabel, ReadyLabel
<1> DEFINE m == NodeAt(p)
           x == NextOf(m)
           c == Uses(m, p)
<1>6. m \in Node /\ x \in MSLoc /\ c \in Nat
  BY <1>4, Fields, QueueLocations
<1>7. loc[t].next = [ptr |-> null, count |-> c]
  BY <1>3, <1>4, FieldValues
<1>8. loc[t].tail.ptr = m
  BY <1>3 DEF Position
<1>9. PICK i \in Extendable(t, x, release) :
        /\ Val(x, i) = loc[t].next
        /\ ReadModifyWrite(t, x, i, Successor(loc[t].next, n), release)
  BY <1>8 DEF Enqueue_Link, CompareExchange, OrderLink
<1>10. i \in 1..Newest(x) /\ (i < Newest(x) => hist[x][i + 1].kind # "rmw")
  BY DEF Extendable, Readable
<1>11. i = NullAt(p)
  <2>1. i = NullIndex(m, Val(x, i).count)
    BY <1>6, <1>7, <1>9, <1>10, NullFound
  <2> QED
    BY <1>7, <1>9, <2>1 DEF NullAt
<1>12. p = End
  <2>1. SUFFICES ASSUME p < End PROVE FALSE
    BY <1>4
  <2>2. LinkAt(p) = i + 1 /\ LinkAt(p) \in 1..Newest(x) /\ Newest(x) \in Nat
    BY <1>4, <1>6, <1>11, <2>1, Fields, QueueLengths DEF MSInv
  <2>3. hist[x][LinkAt(p)].kind = "rmw"
    BY <1>4, <2>1, FieldValues
  <2> QED
    BY <1>10, <2>2, <2>3
<1>13. i = Newest(x)
  BY <1>4, <1>11, <1>12, Fields
<1>14. End = TailPos /\ AfterTail = null
  BY <1>4, <1>12
<1>15. Successor(loc[t].next, n) = [ptr |-> n, count |-> c + 1]
  <2>1. c <= End /\ p \in Nat
    BY <1>4, <1>12, UsesStep DEF UsesLaw
  <2>2. End + 1 <= enqueues /\ enqueues \in Nat /\ enqueues <= MaxEnqueues
    BY <1>1, Bounded DEF MakingLabel
  <2>3. c + 1 < CountRange /\ CountRange \in Nat
    BY <1>4, <1>6, <2>1, <2>2, MSQueueAssumption DEF CountsFit
  <2>4. (c + 1) % CountRange = c + 1
    BY <1>6, <2>3
  <2> QED
    BY <1>7, <2>4 DEF Successor, MakePointer
<1>16. [ptr |-> n, count |-> c + 1] \in Content
  <2>1. c <= End /\ p \in Nat
    BY <1>4, <1>12, UsesStep DEF UsesLaw
  <2>2. End + 1 <= enqueues /\ enqueues \in Nat /\ enqueues <= MaxEnqueues
    BY <1>1, Bounded DEF MakingLabel
  <2>3. c + 1 \in 0..(CountRange - 1)
    BY <1>4, <1>6, <2>1, <2>2, MSQueueAssumption DEF CountsFit
  <2> QED
    BY <1>5, <2>3 DEF Content, Pointer
<1>17. Written(t, x, [ptr |-> n, count |-> c + 1], Joined(t, x), "rmw")
  BY <1>6, <1>9, <1>13, <1>15, <1>16, Exchanging
<1>18. Newest(x) = NullAt(p)
  BY <1>11, <1>13
<1> QED
  BY <1>3, <1>5, <1>12, <1>14, <1>17, <1>18

LEMMA LinkStep ==
  ASSUME MSInv, CountsFit, NEW t \in Thread, Enqueue_Link(t)
  PROVE  MSInv' /\ Moves
<1>1. /\ End = TailPos /\ AfterTail = null /\ loc[t].tail = Position(End)
      /\ TailEvent(End) \in cur[t] /\ Knowledge(End) \subseteq cur[t]
      /\ loc[t].node \in Node /\ Holds(t, loc[t].node) /\ Ready(loc[t].node)
      /\ Newest(NextOf(NodeAt(End))) = NullAt(End)
      /\ Written(t, NextOf(NodeAt(End)),
                 [ptr |-> loc[t].node, count |-> Uses(NodeAt(End), End) + 1],
                 Joined(t, NextOf(NodeAt(End))), "rmw")
  BY LinkFacts
<1>2. /\ HeadPos \in Nat /\ TailPos \in Nat /\ End \in Nat /\ HeadPos <= TailPos /\ TailPos <= End
      /\ Newest(HeadPtr) = HeadPos + 1 /\ Newest(TailPtr) = TailPos + 1
      /\ \A k \in 0..End : NodeAt(k) \in Node
      /\ Ptr(TailPtr) = NodeAt(TailPos)
  BY Positions
<1>3. PICK e \in Nat : e = End
  BY <1>2
<1>4. PICK m \in Node : m = NodeAt(e)
  BY <1>2, <1>3
<1>5. PICK n \in Node : n = loc[t].node
  BY <1>1
<1>6. PICK x : x = NextOf(m)
  OBVIOUS
<1>7. PICK c \in Nat : c = Uses(m, e)
  BY UsesStep DEF UsesLaw
<1>8. PICK v : v = [ptr |-> n, count |-> c + 1]
  OBVIOUS
<1>9. /\ pc[t] = "link" /\ pc' = [pc EXCEPT ![t] = "swingTail"]
      /\ loc' = loc /\ free_lists' = free_lists /\ enqueues' = enqueues
      /\ dequeues' = dequeues /\ out' = out
  BY DEF Enqueue_Link, Goto
<1>10. pc \in [Thread -> QueueLabel]
  BY DEF MSInv, MSTypes
<1>11. pc'[t] = "swingTail" /\ \A u \in Thread \ {t} : pc'[u] = pc[u]
  BY <1>9, <1>10
<1>12. Written(t, x, v, Joined(t, x), "rmw")
  BY <1>1, <1>3, <1>4, <1>5, <1>6, <1>7, <1>8
<1>13. /\ x \in MSLoc \ {HeadPtr, TailPtr} /\ HeadPtr \in MSLoc /\ TailPtr \in MSLoc
       /\ \A p \in Node : Value(p) \in MSLoc \ {x} /\ NextOf(p) \in MSLoc
       /\ \A p \in Node : p # m => NextOf(p) # x
  BY <1>6, QueueLocations
<1>14. /\ Newest(x) \in Nat /\ Newest(x) >= 1 /\ Newest(x)' = Newest(x) + 1
       /\ \A y \in MSLoc \ {x} : hist'[y] = hist[y] /\ Newest(y)' = Newest(y)
       /\ \A i \in 1..Newest(x) : hist'[x][i] = hist[x][i]
       /\ \A y \in MSLoc : Linear(y)'
       /\ \A y \in MSLoc : /\ Newest(y) <= Newest(y)' /\ Newest(y)' \in Nat
                           /\ \A i \in 1..Newest(y) : hist'[y][i] = hist[y][i]
       /\ \A u \in Thread : cur[u] \subseteq cur'[u]
       /\ NextEvent(x) = <<x, Newest(x) + 1>>
       /\ Upto(x, Newest(x)) = {<<x, j>> : j \in 1..Newest(x)}
       /\ Causal'
  BY <1>12, <1>13, WriteMemory
<1>15. /\ hist'[x][Newest(x) + 1].val = v /\ hist'[x][Newest(x) + 1].kind = "rmw"
       /\ hist'[x][Newest(x) + 1].view = Joined(t, x) /\ cur[t] \subseteq Joined(t, x)
       /\ NextEvent(x) \in cur'[t] /\ \A u \in Thread \ {t} : cur'[u] = cur[u]
       /\ MemType(MSLoc, Content)' /\ rel' = rel
  BY <1>12 DEF Written, Joined
<1>16. /\ TailPos' = e /\ TailPos = e /\ HeadPos' = HeadPos
       /\ hist'[TailPtr] = hist[TailPtr] /\ hist'[HeadPtr] = hist[HeadPtr]
  BY <1>1, <1>3, <1>13, <1>14 DEF TailPos, HeadPos
<1>17. AfterTail' = n
  <2>1. Ptr(TailPtr)' = m
    BY <1>2, <1>4, <1>16 DEF Ptr, Val, Newest
  <2>2. Ptr(x)' = n
    <3>1. Ptr(x)' = hist'[x][Newest(x)'].val.ptr
      BY DEF Ptr, Val
    <3> QED
      BY <1>8, <1>14, <1>15, <3>1
  <2> QED
    BY <1>6, <2>1, <2>2 DEF AfterTail
<1>18. End' = e + 1 /\ NodeAt(e + 1)' = n
  BY <1>3, <1>16, <1>17, IndexAssumption DEF End, NodeAt
<1>19. \A k \in 0..e : NodeAt(k)' = NodeAt(k)
  BY <1>16 DEF NodeAt, Val
<1>20. Grows
  <2>1. enqueues \in Nat
    BY Bounded
  <2> QED
    BY <1>2, <1>3, <1>9, <1>14, <1>16, <1>18, <1>19, <2>1 DEF Grows
<1>21. \A k \in 0..e :
         /\ \A p : Uses(p, k)' = Uses(p, k) /\ Uses(p, k + 1)' = Uses(p, k + 1)
         /\ NullAt(k)' = NullAt(k) /\ LinkAt(k)' = LinkAt(k) /\ ValueAt(k)' = ValueAt(k)
         /\ LinkEvent(k)' = LinkEvent(k) /\ Knowledge(k)' = Knowledge(k)
         /\ Position(k)' = Position(k) /\ ItemAt(k)' = ItemAt(k)
  BY <1>3, <1>20, Stable
(* Who holds what.                                                         *)
<1>22. ~InList(n) /\ InList(m) /\ n # m
  <2>1. ~InList(n)
    BY <1>1, <1>5 DEF MSInv, Apart
  <2>2. InList(m)
    BY <1>2, <1>3, <1>4 DEF InList
  <2> QED
    BY <2>1, <2>2
<1>23. \A k \in 0..e : NodeAt(k) = n => k < HeadPos
  BY <1>1, <1>3, <1>5 DEF MSInv, Owned, Owns
<1>24. /\ \A u \in Thread, p \in Node : Holds(u, p)' => Holds(u, p) /\ p # n
       /\ \A p : Making(p)' <=> Making(p) /\ p # n
       /\ \A p : Ready(p)' <=> Ready(p) /\ p # n
       /\ Making(n) /\ Ready(n)
  <2>1. \A u \in Thread \ {t} : ~Holds(u, n)
    BY <1>1, <1>5 DEF MSInv, Apart
  <2>2. \A i \in 1..MAX_FREELIST : free_lists[t][i] # n
    BY <1>5, <1>9 DEF MSInv, Apart, MakingLabel
  <2>3. pc'[t] \notin MakingLabel /\ pc'[t] \notin ReadyLabel
        /\ pc[t] \in MakingLabel /\ pc[t] \in ReadyLabel /\ ReadyLabel \subseteq MakingLabel
    BY <1>9, <1>11 DEF MakingLabel, ReadyLabel
  <2>4. ASSUME NEW u \in Thread, NEW p \in Node, Holds(u, p)'
        PROVE  Holds(u, p) /\ p # n
    <3>1. CASE u = t
      <4>1. \E i \in 1..MAX_FREELIST : free_lists[t][i] = p
        BY <1>9, <2>3, <2>4, <3>1 DEF Holds
      <4> QED
        BY <2>2, <3>1, <4>1 DEF Holds
    <3>2. CASE u # t
      <4>1. Holds(u, p)
        BY <1>9, <1>11, <2>4, <3>2 DEF Holds
      <4> QED
        BY <2>1, <3>2, <4>1
    <3> QED
      BY <3>1, <3>2
  <2>5. \A u \in Thread \ {t} : loc[u].node = n => pc[u] \notin MakingLabel
    BY <2>1 DEF Holds
  <2>6. ASSUME NEW p
        PROVE  (Making(p)' <=> Making(p) /\ p # n) /\ (Ready(p)' <=> Ready(p) /\ p # n)
    <3>1. CASE p = n
      BY <1>9, <1>11, <2>3, <2>5, <3>1 DEF Making, Ready
    <3>2. CASE p # n
      BY <1>5, <1>9, <1>11, <2>3, <3>2 DEF Making, Ready
    <3> QED
      BY <3>1, <3>2
  <2> QED
    BY <1>5, <2>3, <2>4, <2>6 DEF Making, Ready
<1>25. ~Making(m) /\ ~Ready(m)
  BY <1>22 DEF MSInv, Apart, Holds, Making, Ready, MakingLabel, ReadyLabel
(* The uses.                                                               *)
<1>26. \A p : /\ Uses(p, e + 1) \in Nat
              /\ Uses(p, (e + 1) + 1)' = Uses(p, e + 1) + (IF p = n THEN 1 ELSE 0)
  <2>1. e + 1 \in Nat /\ e \in 0..e
    OBVIOUS
  <2>2. \A p : Uses(p, (e + 1) + 1)' = Uses(p, e + 1)' + (IF NodeAt(e + 1)' = p THEN 1 ELSE 0)
    BY <2>1, UsesStepThen DEF UsesLaw
  <2>3. \A p : Uses(p, e + 1) \in Nat
    BY <2>1, UsesStep DEF UsesLaw
  <2>4. \A p : Uses(p, e + 1)' = Uses(p, e + 1)
    BY <1>21, <2>1
  <2> QED
    BY <1>18, <2>2, <2>3, <2>4
<1>27. Uses(m, e + 1) = c + 1
  BY <1>4, <1>7, UsesStep DEF UsesLaw
<1>28. /\ Newest(x) = Base(m) + 2 * c /\ LinkIndex(m, c) = Newest(x) + 1
       /\ LinkAt(e) = Newest(x) + 1 /\ LinkEvent(e) = NextEvent(x)
       /\ Base(m) \in {1, 2}
  <2>1. Newest(x) = NullAt(e)
    BY <1>1, <1>3, <1>4, <1>6
  <2>2. NullAt(e) = Base(m) + 2 * c /\ LinkAt(e) = Base(m) + 2 * c + 1
        /\ LinkIndex(m, c) = Base(m) + 2 * c + 1
    BY <1>4, <1>7, Bases DEF NullAt, LinkAt
  <2>3. LinkAt(e) = Newest(x) + 1 /\ LinkEvent(e) = <<x, LinkAt(e)>>
    BY <1>4, <1>6, <2>1, <2>2 DEF LinkEvent
  <2> QED
    BY <1>14, <2>1, <2>2, <2>3, Bases
<1>29. \A p \in Node : Base(p) \in {1, 2}
  BY Bases
<1>30. ASSUME NEW p \in Node
       PROVE  /\ Newest(NextOf(p))' = NextLength(p)'
              /\ Newest(Value(p))' = ValueLength(p)'
  <2>1. /\ Newest(NextOf(p)) = Base(p) - 1 + 2 * Uses(p, e + 1) + (IF Ready(p) THEN 1 ELSE 0)
                                 - (IF p = m THEN 1 ELSE 0)
        /\ Newest(Value(p)) = Base(p) - 1 + Uses(p, e + 1) + (IF Making(p) THEN 1 ELSE 0)
    BY <1>3, <1>4 DEF MSInv, Nexts, Items, NextLength, ValueLength
  <2>2. /\ NextLength(p)' = Base(p) - 1 + 2 * Uses(p, (e + 1) + 1)' + (IF Ready(p)' THEN 1 ELSE 0)
                              - (IF p = n THEN 1 ELSE 0)
        /\ ValueLength(p)' = Base(p) - 1 + Uses(p, (e + 1) + 1)' + (IF Making(p)' THEN 1 ELSE 0)
    BY <1>18 DEF NextLength, ValueLength
  <2>3. Uses(p, e + 1) \in Nat /\ Base(p) \in {1, 2}
    BY <1>26, <1>29
  <2>4. Newest(Value(p))' = Newest(Value(p))
    BY <1>13, <1>14
  <2>5. CASE p = n
    <3>1. Newest(NextOf(p))' = Newest(NextOf(p))
      BY <1>13, <1>14, <1>22, <2>5
    <3>2. Uses(p, (e + 1) + 1)' = Uses(p, e + 1) + 1
      BY <1>26, <2>5
    <3>3. Making(p) /\ Ready(p) /\ ~Making(p)' /\ ~Ready(p)' /\ p # m
      BY <1>22, <1>24, <2>5
    <3> QED
      BY <2>1, <2>2, <2>3, <2>4, <2>5, <3>1, <3>2, <3>3
  <2>6. CASE p # n
    <3>1. Uses(p, (e + 1) + 1)' = Uses(p, e + 1)
      BY <1>26, <2>6
    <3>2. (Making(p)' <=> Making(p)) /\ (Ready(p)' <=> Ready(p))
      BY <1>24, <2>6
    <3>3. CASE p = m
      <4>1. Newest(NextOf(p))' = Newest(NextOf(p)) + 1
        BY <1>6, <1>14, <3>3
      <4> QED
        BY <2>1, <2>2, <2>3, <2>4, <2>6, <3>1, <3>2, <3>3, <4>1
    <3>4. CASE p # m
      <4>1. Newest(NextOf(p))' = Newest(NextOf(p))
        BY <1>13, <1>14, <3>4
      <4> QED
        BY <2>1, <2>2, <2>3, <2>4, <2>6, <3>1, <3>2, <3>4, <4>1
    <3> QED
      BY <3>3, <3>4
  <2> QED
    BY <2>5, <2>6
<1>31. Nexts'
  <2>1. ASSUME NEW p \in Node
        PROVE  /\ p # Dummy => Val(NextOf(p), 1)' = [ptr |-> POISON, count |-> 0]
               /\ \A o \in 0..Newest(NextOf(p))' :
                    /\ NullIndex(p, o) <= Newest(NextOf(p))' =>
                         Val(NextOf(p), NullIndex(p, o))' = [ptr |-> null, count |-> o]
                    /\ LinkIndex(p, o) <= Newest(NextOf(p))' =>
                         /\ hist'[NextOf(p)][LinkIndex(p, o)].kind = "rmw"
                         /\ Val(NextOf(p), LinkIndex(p, o))'.count = o + 1
                         /\ Val(NextOf(p), LinkIndex(p, o))'.ptr \in Node
    <3>0. /\ p # Dummy => Val(NextOf(p), 1) = [ptr |-> POISON, count |-> 0]
          /\ \A o \in 0..Newest(NextOf(p)) :
               /\ NullIndex(p, o) <= Newest(NextOf(p)) =>
                    Val(NextOf(p), NullIndex(p, o)) = [ptr |-> null, count |-> o]
               /\ LinkIndex(p, o) <= Newest(NextOf(p)) =>
                    /\ hist[NextOf(p)][LinkIndex(p, o)].kind = "rmw"
                    /\ Val(NextOf(p), LinkIndex(p, o)).count = o + 1
                    /\ Val(NextOf(p), LinkIndex(p, o)).ptr \in Node
      BY DEF MSInv, Nexts
    <3>1. CASE p # m
      <4>1. hist'[NextOf(p)] = hist[NextOf(p)] /\ Newest(NextOf(p))' = Newest(NextOf(p))
        BY <1>13, <1>14, <3>1
      <4> QED
        BY <3>0, <4>1 DEF Val
    <3>2. CASE p = m
      <4>1. NextOf(p) = x
        BY <1>6, <3>2
      <4>2. p # Dummy => Val(x, 1)' = [ptr |-> POISON, count |-> 0]
        BY <1>14, <3>0, <4>1 DEF Val
      <4>3. ASSUME NEW o \in 0..Newest(x)'
            PROVE  /\ NullIndex(p, o) <= Newest(x)' =>
                        Val(x, NullIndex(p, o))' = [ptr |-> null, count |-> o]
                   /\ LinkIndex(p, o) <= Newest(x)' =>
                        /\ hist'[x][LinkIndex(p, o)].kind = "rmw"
                        /\ Val(x, LinkIndex(p, o))'.count = o + 1
                        /\ Val(x, LinkIndex(p, o))'.ptr \in Node
        <5>1. /\ NullIndex(p, o) = Base(p) + 2 * o /\ LinkIndex(p, o) = Base(p) + 2 * o + 1
              /\ Base(p) \in {1, 2} /\ o \in Nat /\ Newest(x)' = Newest(x) + 1
          BY <1>14, <1>29, Bases
        <5>2. ASSUME NullIndex(p, o) <= Newest(x)'
              PROVE  Val(x, NullIndex(p, o))' = [ptr |-> null, count |-> o]
          <6>1. NullIndex(p, o) # Newest(x) + 1
            BY <1>28, <3>2, <5>1
          <6>2. NullIndex(p, o) <= Newest(x) /\ o \in 0..Newest(x)
                /\ NullIndex(p, o) \in 1..Newest(x)
            BY <1>14, <5>1, <5>2, <6>1
          <6>3. Val(x, NullIndex(p, o)) = [ptr |-> null, count |-> o]
            BY <3>0, <4>1, <6>2
          <6>4. hist'[x][NullIndex(p, o)] = hist[x][NullIndex(p, o)]
            BY <1>14, <6>2
          <6> QED
            BY <6>3, <6>4 DEF Val, NullIndex, Base
        <5>3. ASSUME LinkIndex(p, o) <= Newest(x)'
              PROVE  /\ hist'[x][LinkIndex(p, o)].kind = "rmw"
                     /\ hist'[x][LinkIndex(p, o)].val.count = o + 1
                     /\ hist'[x][LinkIndex(p, o)].val.ptr \in Node
          <6>1. CASE LinkIndex(p, o) = Newest(x) + 1
            <7>1. o = c
              BY <1>28, <3>2, <5>1, <6>1
            <7> QED
              BY <1>8, <1>15, <6>1, <7>1
          <6>2. CASE LinkIndex(p, o) # Newest(x) + 1
            <7>1. LinkIndex(p, o) <= Newest(x) /\ o \in 0..Newest(x)
                  /\ LinkIndex(p, o) \in 1..Newest(x)
              BY <1>14, <5>1, <5>3, <6>2
            <7>2. hist'[x][LinkIndex(p, o)] = hist[x][LinkIndex(p, o)]
              BY <1>14, <7>1
            <7> QED
              BY <3>0, <4>1, <7>1, <7>2 DEF Val
          <6> QED
            BY <6>1, <6>2
        <5> QED
          BY <5>2, <5>3 DEF Val, LinkIndex, Base
      <4> QED
        BY <4>1, <4>2, <4>3
    <3> QED
      BY <3>1, <3>2
  <2>2. ASSUME NEW k \in 0..(End' - 1)
        PROVE  Val(NextOf(NodeAt(k)), LinkAt(k))'.ptr = NodeAt(k + 1)'
    <3>0. k \in 0..e /\ NodeAt(k)' = NodeAt(k) /\ LinkAt(k)' = LinkAt(k) /\ NodeAt(k) \in Node
      BY <1>2, <1>3, <1>18, <1>19, <1>21
    <3>1. CASE k < e
      <4>1. k \in 0..(End - 1) /\ k + 1 \in 0..e /\ k < End
        BY <1>3, <3>0, <3>1
      <4>2. Val(NextOf(NodeAt(k)), LinkAt(k)).ptr = NodeAt(k + 1)
        BY <4>1 DEF MSInv, Nexts
      <4>3. LinkAt(k) \in 1..Newest(NextOf(NodeAt(k))) /\ NextOf(NodeAt(k)) \in MSLoc
        BY <1>3, <1>13, <3>0, <4>1, Fields
      <4>4. hist'[NextOf(NodeAt(k))][LinkAt(k)] = hist[NextOf(NodeAt(k))][LinkAt(k)]
        BY <1>14, <4>3
      <4> QED
        BY <1>19, <3>0, <4>1, <4>2, <4>4 DEF Val
    <3>2. CASE ~(k < e)
      <4>1. k = e /\ NextOf(NodeAt(k)) = x /\ LinkAt(k) = Newest(x) + 1
        BY <1>4, <1>6, <1>28, <3>0, <3>2
      <4> QED
        BY <1>8, <1>15, <1>18, <3>0, <4>1 DEF Val
    <3> QED
      BY <3>1, <3>2
  <2> QED
    BY <1>30, <2>1, <2>2 DEF Nexts
<1>32. Items'
  <2>1. \A p \in Node : /\ Newest(Value(p))' = Newest(Value(p))
                        /\ \A i : Val(Value(p), i)' = Val(Value(p), i)
    BY <1>13, <1>14 DEF Val
  <2>2. out' = [k \in 1..HeadPos' |-> ItemAt(k)']
    <3>1. \A k \in 1..HeadPos : ItemAt(k)' = ItemAt(k)
      BY <1>2, <1>3, <1>21
    <3>2. out = [k \in 1..HeadPos |-> ItemAt(k)]
      BY DEF MSInv, Items
    <3> QED
      BY <1>9, <1>16, <3>1, <3>2
  <2>3. \A p \in Node : \A i \in 2..Newest(Value(p))' : Val(Value(p), i)' \in 1..enqueues'
    BY <1>9, <2>1 DEF MSInv, Items
  <2>4. \A p, q \in Node : \A i \in 2..Newest(Value(p))', j \in 2..Newest(Value(q))' :
          Val(Value(p), i)' = Val(Value(q), j)' => p = q /\ i = j
    BY <2>1 DEF MSInv, Items
  <2> QED
    BY <1>30, <2>2, <2>3, <2>4 DEF Items
<1>33. Apart'
  <2>1. ASSUME NEW j \in HeadPos'..End', NEW k \in HeadPos'..End', NodeAt(j)' = NodeAt(k)'
        PROVE  j = k
    <3>1. \A i \in HeadPos..e : i \in 0..e /\ NodeAt(i)' = NodeAt(i) /\ NodeAt(i) # n
      BY <1>2, <1>3, <1>19, <1>23
    <3>2. (j \in HeadPos..e \/ j = e + 1) /\ (k \in HeadPos..e \/ k = e + 1)
      BY <1>2, <1>16, <1>18
    <3>3. \A a, b \in HeadPos..e : NodeAt(a) = NodeAt(b) => a = b
      BY <1>3 DEF MSInv, Apart
    <3> QED
      BY <1>18, <2>1, <3>1, <3>2, <3>3
  <2>2. \A p : InList(p)' => InList(p) \/ p = n
    <3>1. ASSUME NEW p, InList(p)'
          PROVE  InList(p) \/ p = n
      <4>1. PICK k \in HeadPos'..End' : NodeAt(k)' = p
        BY <3>1 DEF InList
      <4>2. k = e + 1 \/ (k \in HeadPos..End /\ k \in 0..e)
        BY <1>2, <1>3, <1>16, <1>18, <4>1
      <4> QED
        BY <1>18, <1>19, <4>1, <4>2 DEF InList
    <3> QED
      BY <3>1
  <2>3. \A u \in Thread, p \in Node : Holds(u, p)' => ~InList(p)'
    BY <1>24, <2>2 DEF MSInv, Apart
  <2>4. \A u, w \in Thread, p \in Node : Holds(u, p)' /\ Holds(w, p)' => u = w
    BY <1>24 DEF MSInv, Apart
  <2>5. \A u \in Thread : pc'[u] \in MakingLabel =>
          loc'[u].node \in Node /\ \A i \in 1..MAX_FREELIST : free_lists'[u][i] # loc'[u].node
    <3>1. pc'[t] \notin MakingLabel
      BY <1>11 DEF MakingLabel
    <3> QED
      BY <1>9, <1>11, <3>1 DEF MSInv, Apart
  <2>6. \A u \in Thread : pc'[u] \notin EnqueueLabel => loc'[u].node = null
    <3>1. pc'[t] \in EnqueueLabel
      BY <1>11 DEF EnqueueLabel
    <3> QED
      BY <1>9, <1>11, <3>1 DEF MSInv, Apart
  <2> QED
    BY <1>9, <2>1, <2>3, <2>4, <2>5, <2>6 DEF MSInv, Apart
<1>34. ASSUME NEW u \in Thread, NEW p \in Node, Holds(u, p)
       PROVE  p # m
  BY <1>22, <1>34 DEF MSInv, Apart
<1>35. Owned'
  <2>1. ASSUME NEW u \in Thread, NEW p \in Node, Holds(u, p)'
        PROVE  Owns(u, p)'
    <3>1. Holds(u, p) /\ p # n /\ p # m
      BY <1>24, <1>34, <2>1
    <3>2. hist'[NextOf(p)] = hist[NextOf(p)] /\ hist'[Value(p)] = hist[Value(p)]
      BY <1>13, <1>14, <3>1
    <3>3. \A k \in 0..End' : k \in 0..End \/ NodeAt(k)' # p
      <4>1. \A k \in 0..End' : k \in 0..End \/ k = e + 1
        BY <1>3, <1>18
      <4> QED
        BY <1>18, <3>1, <4>1
    <3> QED
      BY <1>20, <3>1, <3>2, <3>3, OwnersStay
  <2> QED
    BY <2>1 DEF Owned
(* What t knows of the new position.                                       *)
<1>36. Knowledge(e + 1)' \subseteq cur[t] \cup {LinkEvent(e)}
  <2>1. Knowledge(e + 1)' = Knowledge(e)' \cup Arrival(e + 1)'
    BY KnowledgeStepsThen DEF KnowledgeLaw
  <2>2. Knowledge(e)' \subseteq cur[t]
    BY <1>1, <1>3, <1>21
  <2>3. Owns(t, n)
    BY <1>1, <1>5 DEF MSInv, Owned
  <2>4. NullEvent(e + 1)' \in cur[t]
    <3>1. NullAt(e + 1)' = Base(n) + 2 * Uses(n, e + 1)
      <4>1. Uses(n, e + 1)' = Uses(n, e + 1)
        BY <1>21
      <4> QED
        BY <1>18, <4>1, Bases DEF NullAt
    <3>2. Newest(NextOf(n)) = Base(n) - 1 + 2 * Uses(n, e + 1) + 1
      <4>1. Newest(NextOf(n)) = NextLength(n)
        BY DEF MSInv, Nexts
      <4>2. NextLength(n) = Base(n) - 1 + 2 * Uses(n, e + 1) + 1 - 0
        BY <1>3, <1>4, <1>22, <1>24 DEF NextLength
      <4> QED
        BY <1>26, <1>29, <4>1, <4>2
    <3>3. NullAt(e + 1)' = Newest(NextOf(n))
      BY <1>26, <1>29, <3>1, <3>2
    <3> QED
      BY <1>18, <2>3, <3>3 DEF NullEvent, Owns
  <2>5. ValueEvent(e + 1)' \in cur[t]
    <3>1. ValueAt(e + 1)' = Base(n) + Uses(n, e + 1)
      <4>1. Uses(n, e + 1)' = Uses(n, e + 1)
        BY <1>21
      <4> QED
        BY <1>18, <4>1 DEF ValueAt
    <3>2. Newest(Value(n)) = Base(n) - 1 + Uses(n, e + 1) + 1
      <4>1. Newest(Value(n)) = ValueLength(n)
        BY DEF MSInv, Items
      <4> QED
        BY <1>3, <1>24, <4>1 DEF ValueLength
    <3>3. ValueAt(e + 1)' = Newest(Value(n))
      BY <1>26, <1>29, <3>1, <3>2
    <3> QED
      BY <1>18, <2>3, <3>3 DEF ValueEvent, Owns
  <2>6. LinkEvent((e + 1) - 1)' = LinkEvent(e)
    <3>1. (e + 1) - 1 = e /\ e \in 0..e
      OBVIOUS
    <3> QED
      BY <1>21, <3>1
  <2>7. ASSUME NEW i \in 0..((e + 1) - 1), NodeAt(i)' = NodeAt(e + 1)'
        PROVE  Departure(i) \subseteq cur[t]
    <3>1. i \in 0..End /\ NodeAt(i) = n
      BY <1>3, <1>18, <1>19, <2>7
    <3> QED
      BY <2>3, <3>1 DEF Owns
  <2>8. Arrival(e + 1)' \subseteq cur[t] \cup {LinkEvent(e)}
    <3>1. Arrival(e + 1)' = {NullEvent(e + 1)', ValueEvent(e + 1)', LinkEvent((e + 1) - 1)'}
            \cup UNION {Departure(i) : i \in {j \in 0..((e + 1) - 1) : NodeAt(j)' = NodeAt(e + 1)'}}
      BY DEF Arrival, Departure, HeadEvent, TailEvent
    <3> QED
      BY <2>4, <2>5, <2>6, <2>7, <3>1
  <2> QED
    BY <2>1, <2>2, <2>8
<1>37. \A u \in Thread \ {t} : Locals(u)'
  <2>1. Others(t)
    BY <1>9, <1>11, <1>15 DEF Others
  <2>2. \A u \in Thread \ {t}, p \in Node : Holds(u, p) => hist'[NextOf(p)] = hist[NextOf(p)]
    BY <1>13, <1>14, <1>34
  <2> QED
    BY <1>20, <2>1, <2>2, OthersRead
<1>38. Locals(t)'
  <2>1. e \in 0..TailPos' /\ e < End'
    BY <1>16, <1>18
  <2>2. TailRead(t, e)'
    <3>1. loc'[t].tail = Position(e)'
      BY <1>1, <1>3, <1>9, <1>21
    <3>2. TailEvent(e) \in cur'[t] /\ Knowledge(e)' \subseteq cur'[t]
      BY <1>1, <1>3, <1>14, <1>21
    <3>3. Knowledge(e + 1)' \subseteq cur'[t]
      BY <1>14, <1>15, <1>28, <1>36
    <3>4. loc'[t].node = NodeAt(e + 1)'
      BY <1>5, <1>9, <1>18
    <3> QED
      BY <1>11, <2>1, <3>1, <3>2, <3>3, <3>4 DEF TailRead, TailEvent
  <2> QED
    BY <1>11, <2>1, <2>2 DEF Locals, HeadLabel
<1>39. Reading'
  BY <1>37, <1>38 DEF Reading
<1>40. /\ NodeAt(0)' = Dummy
       /\ \A k \in 0..End : NodeAt(k)' \in Node
       /\ \A k \in 0..TailPos : Val(TailPtr, k + 1)' = Position(k)'
       /\ \A k \in 0..HeadPos : Val(HeadPtr, k + 1)' = Position(k)'
       /\ \A j \in 2..Newest(HeadPtr) : hist'[HeadPtr][j].kind = "rmw"
       /\ \A j \in 2..Newest(TailPtr) : hist'[TailPtr][j].kind = "rmw"
       /\ \A k \in 1..TailPos : Knowledge(k)' \subseteq hist'[TailPtr][k + 1].view
       /\ \A k \in 1..HeadPos :
            Knowledge(k)' \cup {TailEvent(k)} \subseteq hist'[HeadPtr][k + 1].view
       /\ \A k \in 0..(End - 1) : \A j \in LinkAt(k)..Newest(NextOf(NodeAt(k))) :
            LET view == hist'[NextOf(NodeAt(k))][j].view
            IN  /\ Knowledge(k + 1)' \subseteq view \cup {LinkEvent(k)}
                /\ j > LinkAt(k) => Departure(k) \subseteq view
  BY <1>20, PointersStay
<1>41. Ends'
  <2>1. End' + Cardinality(Makers') = enqueues'
    <3>1. Makers' = Makers \ {t} /\ t \in Makers
      <4>1. pc'[t] \notin MakingLabel /\ pc[t] \in MakingLabel
        BY <1>9, <1>11 DEF MakingLabel
      <4> QED
        BY <1>11, <4>1 DEF Makers
    <3>2. IsFiniteSet(Makers)
      <4>1. Makers \in SUBSET Thread
        BY DEF Makers
      <4> QED
        BY <4>1, MSQueueAssumption, FS_Subset
    <3>3. Cardinality(Makers) \in Nat /\ Cardinality(Makers') = Cardinality(Makers) - 1
      BY <3>1, <3>2, FS_CardinalityType, FS_RemoveElement
    <3>4. End + Cardinality(Makers) = enqueues
      BY DEF MSInv, Ends
    <3> QED
      BY <1>3, <1>9, <1>18, <3>3, <3>4
  <2>2. \A k \in 0..End' : NodeAt(k)' \in Node
    <3>1. \A k \in 0..End' : k \in 0..End \/ k = e + 1
      BY <1>3, <1>18
    <3> QED
      BY <1>18, <1>40, <3>1
  <2>3. HeadPos' \in 0..TailPos' /\ TailPos' = TailPos
    BY <1>2, <1>16
  <2>4. Newest(HeadPtr)' = Newest(HeadPtr) /\ Newest(TailPtr)' = Newest(TailPtr)
    BY <1>16 DEF Newest
  <2> QED
    BY <1>16, <1>40, <2>1, <2>2, <2>3, <2>4 DEF Ends
<1>42. Published'
  <2>1. ASSUME NEW k \in 0..(End' - 1), NEW j \in (LinkAt(k)..Newest(NextOf(NodeAt(k))))'
        PROVE  /\ Knowledge(k + 1)' \subseteq (hist[NextOf(NodeAt(k))][j].view \cup {LinkEvent(k)})'
               /\ j > LinkAt(k)' => Departure(k) \subseteq (hist[NextOf(NodeAt(k))][j].view)'
    <3>1. k \in 0..e /\ NodeAt(k) \in Node
      BY <1>2, <1>3, <1>18
    <3>2. /\ NodeAt(k)' = NodeAt(k) /\ LinkAt(k)' = LinkAt(k) /\ LinkEvent(k)' = LinkEvent(k)
          /\ LinkAt(k) \in Nat
      BY <1>3, <1>19, <1>21, <3>1, Fields
    <3>3. Newest(NextOf(NodeAt(k)))' = Newest(NextOf(NodeAt(k)))'
      OBVIOUS
    <3>4. j \in LinkAt(k)..(Newest(NextOf(NodeAt(k)))')
      BY <3>2
    <3>5. CASE k = e
      <4>1. NextOf(NodeAt(k)) = x /\ j = Newest(x) + 1 /\ LinkAt(k) = Newest(x) + 1
        BY <1>4, <1>6, <1>14, <1>28, <3>2, <3>4, <3>5
      <4>2. hist'[x][j].view = Joined(t, x)
        BY <1>15, <4>1
      <4> QED
        BY <1>14, <1>15, <1>36, <3>2, <3>5, <4>1, <4>2
    <3>6. CASE k # e /\ j \in LinkAt(k)..Newest(NextOf(NodeAt(k)))
      <4>1. k \in 0..(End - 1)
        BY <1>3, <3>1, <3>6
      <4> QED
        BY <1>40, <3>2, <3>6, <4>1
    <3>7. CASE k # e /\ j \notin LinkAt(k)..Newest(NextOf(NodeAt(k)))
      <4>1. NodeAt(k) = m /\ NextOf(NodeAt(k)) = x
        BY <1>6, <1>13, <1>14, <3>1, <3>2, <3>4, <3>7
      <4>2. j = Newest(x) + 1
        BY <1>14, <3>2, <3>4, <3>7, <4>1
      <4>3. hist'[NextOf(NodeAt(k))][j].view = Joined(t, x)
        BY <1>15, <4>1, <4>2
      <4>4. k \in 0..(e - 1) /\ e \in 1..e /\ k + 1 <= e /\ k + 1 \in 0..e
        BY <3>1, <3>7
      <4>5. Knowledge(k + 1)' = Knowledge(k + 1) /\ Knowledge(k + 1) \subseteq Knowledge(e)
        BY <1>21, <4>4, KnowledgeSteps DEF KnowledgeLaw
      <4>6. Departure(k) \subseteq Knowledge(e)
        BY <1>4, <4>1, <4>4, KnowledgeParts
      <4>7. Knowledge(e) \subseteq Joined(t, x)
        BY <1>1, <1>3, <1>15
      <4> QED
        BY <3>2, <4>1, <4>3, <4>5, <4>6, <4>7
    <3> QED
      BY <3>5, <3>6, <3>7
  <2> QED
    BY <1>16, <1>40, <2>1 DEF Published, Departure, HeadEvent, TailEvent
<1>43. Closures'
  <2>1. \A j \in 0..(End - 1) : LinkEvent(j) \in cur[t]
    <3>1. ASSUME NEW j \in 0..(End - 1)
          PROVE  LinkEvent(j) \in cur[t]
      <4>1. j + 1 \in 1..e /\ (j + 1) - 1 = j
        BY <1>3
      <4>2. LinkEvent((j + 1) - 1) \in Knowledge(e)
        BY <4>1, KnowledgeParts
      <4> QED
        BY <1>1, <1>3, <4>1, <4>2
    <3> QED
      BY <3>1
  <2>2. \A k \in 0..(End - 1) : \A j \in 0..(k - 1) : j \in 0..(End - 1)
    BY <1>2
  <2>3. Closed(cur[t] \cup Upto(x, Newest(x))) /\ Closed(Joined(t, x) \cup Upto(x, Newest(x)))
    BY <1>15, <2>1, <2>2 DEF Closed
  <2>4. End' = End + 1 /\ LinkEvent(End) = NextEvent(x)
    BY <1>3, <1>18, <1>28
  <2>5. Others(t)
    BY <1>9, <1>11, <1>15 DEF Others
  <2> QED
    BY <1>12, <1>13, <1>15, <1>20, <2>1, <2>3, <2>4, <2>5, ClosuresStay
<1>44. MSTypes'
  <2>1. \A p \in Node : \A j \in 1..Newest(Value(p))' : Val(Value(p), j)' \in Nat
    BY <1>13, <1>14 DEF MSInv, MSTypes, Val
  <2>2. ASSUME NEW p \in Node, NEW j \in 1..Newest(NextOf(p))'
        PROVE  hist'[NextOf(p)][j].val \in Pointer
    <3>1. CASE j \in 1..Newest(NextOf(p))
      <4>1. hist'[NextOf(p)][j] = hist[NextOf(p)][j]
        BY <1>13, <1>14, <3>1
      <4> QED
        BY <3>1, <4>1 DEF MSInv, MSTypes, Val
    <3>2. CASE j \notin 1..Newest(NextOf(p))
      <4>1. NextOf(p) = x
        BY <1>13, <1>14, <3>2
      <4>2. j = Newest(x) + 1
        BY <1>14, <3>2, <4>1
      <4>3. v \in Pointer
        <5>1. c <= e /\ e + 1 <= enqueues /\ enqueues \in Nat /\ enqueues <= MaxEnqueues
          BY <1>3, <1>7, <1>9, UsesStep, Bounded DEF UsesLaw, MakingLabel
        <5>2. c + 1 \in 0..(CountRange - 1)
          BY <5>1, MSQueueAssumption DEF CountsFit
        <5> QED
          BY <1>8, <5>2 DEF Pointer
      <4> QED
        BY <1>15, <4>1, <4>2, <4>3
    <3> QED
      BY <3>1, <3>2
  <2>3. pc' \in [Thread -> QueueLabel]
    BY <1>9, <1>10 DEF QueueLabel, EnqueueLabel
  <2>4. rel' = [u \in Thread |-> {}]
    BY <1>15 DEF MSInv, MSTypes
  <2>5. \A p \in Node : \A j \in 1..Newest(NextOf(p))' : Val(NextOf(p), j)' \in Pointer
    BY <2>2 DEF Val
  <2> QED
    BY <1>9, <1>14, <1>15, <2>1, <2>3, <2>4, <2>5 DEF MSInv, MSTypes
<1>45. Moves
  BY <1>3, <1>16, <1>18, <1>20 DEF Moves
<1> QED
  BY <1>14, <1>31, <1>32, <1>33, <1>35, <1>39, <1>41, <1>42, <1>43, <1>44, <1>45 DEF MSInv

-----------------------------------------------------------------------------
(* A call sets one local.                                                  *)
LEMMA SetLocal ==
  ASSUME MSInv, NEW t \in Thread, NEW f, NEW v, Set(t, f, v),
         \/ f \in {"tmp", "head", "tail", "next"} /\ v \in Pointer \cup {null}
         \/ f = "node" /\ v \in Node
         \/ f = "val" /\ v \in Nat
  PROVE  /\ loc' \in [Thread -> Local]
         /\ \A u \in Thread \ {t} : loc'[u] = loc[u]
         /\ loc'[t].node = (IF f = "node" THEN v ELSE loc[t].node)
         /\ loc'[t].tmp = (IF f = "tmp" THEN v ELSE loc[t].tmp)
         /\ loc'[t].head = (IF f = "head" THEN v ELSE loc[t].head)
         /\ loc'[t].tail = (IF f = "tail" THEN v ELSE loc[t].tail)
         /\ loc'[t].next = (IF f = "next" THEN v ELSE loc[t].next)
         /\ loc'[t].val = (IF f = "val" THEN v ELSE loc[t].val)
<1>1. loc \in [Thread -> Local] /\ loc[t] \in Local
  BY DEF MSInv, MSTypes
<1>2. loc' = [loc EXCEPT ![t] = [loc[t] EXCEPT ![f] = v]]
  BY DEF Set
<1>3. PICK r : r = [loc[t] EXCEPT ![f] = v]
  OBVIOUS
<1>4. CASE f = "tmp" /\ v \in Pointer \cup {null}
  <2>1. r \in Local
    BY <1>1, <1>3, <1>4 DEF Local
  <2> QED
    BY <1>1, <1>2, <1>3, <1>4, <2>1 DEF Local
<1>5. CASE f = "head" /\ v \in Pointer \cup {null}
  <2>1. r \in Local
    BY <1>1, <1>3, <1>5 DEF Local
  <2> QED
    BY <1>1, <1>2, <1>3, <1>5, <2>1 DEF Local
<1>6. CASE f = "tail" /\ v \in Pointer \cup {null}
  <2>1. r \in Local
    BY <1>1, <1>3, <1>6 DEF Local
  <2> QED
    BY <1>1, <1>2, <1>3, <1>6, <2>1 DEF Local
<1>7. CASE f = "next" /\ v \in Pointer \cup {null}
  <2>1. r \in Local
    BY <1>1, <1>3, <1>7 DEF Local
  <2> QED
    BY <1>1, <1>2, <1>3, <1>7, <2>1 DEF Local
<1>8. CASE f = "node" /\ v \in Node
  <2>1. r \in Local
    BY <1>1, <1>3, <1>8 DEF Local
  <2> QED
    BY <1>1, <1>2, <1>3, <1>8, <2>1 DEF Local
<1>9. CASE f = "val" /\ v \in Nat
  <2>1. r \in Local
    BY <1>1, <1>3, <1>9 DEF Local
  <2> QED
    BY <1>1, <1>2, <1>3, <1>9, <2>1 DEF Local
<1> QED
  BY <1>4, <1>5, <1>6, <1>7, <1>8, <1>9

(* What a load of t reads, and what it leaves as it is.                    *)
LEMMA LoadFacts ==
  ASSUME MSInv, NEW t \in Thread, NEW x \in MSLoc, NEW i, NEW ord, Load(t, x, i, ord),
         enqueues' = enqueues
  PROVE  /\ i \in 1..Newest(x) /\ Newest(x) \in Nat
         /\ \A j \in Nat : <<x, j>> \in cur[t] => j <= i
         /\ HeadPos' = HeadPos /\ TailPos' = TailPos /\ End' = End
         /\ cur[t] \subseteq cur'[t] /\ \A j \in 1..i : <<x, j>> \in cur'[t]
         /\ ord \in Acquiring => hist[x][i].view \subseteq cur'[t]
         /\ \A e : e \in cur'[t] => \/ e \in cur[t] \/ e \in hist[x][i].view
                                    \/ \E j \in 1..i : e = <<x, j>>
         /\ \A u \in Thread \ {t} : cur'[u] = cur[u]
         /\ \A y : Newest(y)' = Newest(y) /\ \A j : Val(y, j)' = Val(y, j)
         /\ \A k \in 0..End :
              /\ NodeAt(k)' = NodeAt(k) /\ Position(k)' = Position(k)
              /\ NullAt(k)' = NullAt(k) /\ LinkAt(k)' = LinkAt(k)
              /\ LinkEvent(k)' = LinkEvent(k) /\ Knowledge(k)' = Knowledge(k)
              /\ ItemAt(k)' = ItemAt(k)
<1>1. /\ i \in 1..Newest(x) /\ i \in Readable(t, x, ord) /\ hist' = hist
      /\ cur'[t] = cur[t] \cup {<<x, j>> : j \in 1..i}
                         \cup (IF ord \in Acquiring THEN hist[x][i].view ELSE {})
      /\ \A u \in Thread \ {t} : cur'[u] = cur[u]
  BY LoadMemory
<1>2. \A u \in Thread : cur[u] \subseteq cur'[u]
  BY <1>1
<1>3. Grows /\ SameList /\ TailPos' = TailPos
      /\ \A y : Newest(y)' = Newest(y) /\ \A j : Val(y, j)' = Val(y, j)
  BY <1>1, <1>2, SameHist
<1>4. \A k \in 0..End :
        /\ NodeAt(k)' = NodeAt(k) /\ Position(k)' = Position(k)
        /\ NullAt(k)' = NullAt(k) /\ LinkAt(k)' = LinkAt(k)
        /\ LinkEvent(k)' = LinkEvent(k) /\ Knowledge(k)' = Knowledge(k)
        /\ ItemAt(k)' = ItemAt(k)
  BY <1>3, Stable
<1>5. \A j \in Nat : <<x, j>> \in cur[t] => j <= i
  BY <1>1, NoOlder
<1>6. Newest(x) \in Nat
  BY QueueLengths DEF MSInv
<1>7. \A j \in 1..i : <<x, j>> \in cur'[t]
  BY <1>1
<1>8. ord \in Acquiring => hist[x][i].view \subseteq cur'[t]
  BY <1>1
<1>9. \A e : e \in cur'[t] => \/ e \in cur[t] \/ e \in hist[x][i].view
                              \/ \E j \in 1..i : e = <<x, j>>
  BY <1>1
<1> QED
  BY <1>1, <1>2, <1>3, <1>4, <1>5, <1>6, <1>7, <1>8, <1>9 DEF SameList

(* The step takes t to another label and leaves its node in its hands.     *)
LEMMA RoleKept ==
  ASSUME MSInv, NEW t \in Thread, NEW to \in QueueLabel, MoveTo(t, to),
         to \in MakingLabel <=> pc[t] \in MakingLabel,
         to \in ReadyLabel <=> pc[t] \in ReadyLabel,
         to \notin EnqueueLabel => pc[t] \notin EnqueueLabel \/ loc'[t].node = null,
         loc' \in [Thread -> Local], \A u \in Thread \ {t} : loc'[u] = loc[u],
         \/ loc'[t].node = loc[t].node
         \/ loc'[t].node = null /\ to \notin MakingLabel,
         \A u \in Thread \ {t} : cur'[u] = cur[u],
         UNCHANGED <<free_lists, enqueues, out>>, dequeues' \in 0..MaxDequeues
  PROVE  SameRole(t) /\ pc'[t] = to
<1>1. pc \in [Thread -> QueueLabel] /\ pc' = [pc EXCEPT ![t] = to]
  BY DEF MSInv, MSTypes, MoveTo
<1>2. pc' \in [Thread -> QueueLabel] /\ pc'[t] = to /\ \A u \in Thread \ {t} : pc'[u] = pc[u]
  BY <1>1
<1>3. pc[t] \notin EnqueueLabel => loc[t].node = null
  BY DEF MSInv, Apart
<1>4. MakingLabel \subseteq EnqueueLabel
  BY DEF EnqueueLabel
<1> QED
  BY <1>2, <1>3, <1>4 DEF SameRole, Others

(* A call that has nothing to remember has nothing to keep.                *)
LEMMA NoReading ==
  ASSUME NEW t \in Thread, pc'[t] \in {"idle", "loadHead", "loadTail", "loadOwn"}
  PROVE  Locals(t)'
BY DEF Locals, TailLabel, HeadLabel

(* The pointers are no links.                                              *)
LEMMA PointerRead ==
  ASSUME MSInv, NEW x, x \in {HeadPtr, TailPtr} \/ \E m : x = Value(m)
  PROVE  /\ x \in {HeadPtr, TailPtr} => x \in MSLoc
         /\ \A k, i : LinkEvent(k) \notin {<<x, j>> : j \in 1..i}
BY QueueLocations DEF LinkEvent

(* What t may find in the next of a node it has got to: the null it was    *)
(* initialised with, the link to its successor, or, once the node has left *)
(* the list, what was written to it later.                                 *)
LEMMA NextRead ==
  ASSUME MSInv, NEW t \in Thread, NEW k \in 0..End, NEW ord, NEW i,
         Load(t, NextOf(NodeAt(k)), i, ord), Knowledge(k) \subseteq cur[t], enqueues' = enqueues
  PROVE  /\ NextOf(NodeAt(k)) \in MSLoc /\ NullAt(k) <= i /\ i \in Nat
         /\ Val(NextOf(NodeAt(k)), i) \in Pointer
         /\ Val(NextOf(NodeAt(k)), i).ptr # POISON
         /\ i = NullAt(k) => Val(NextOf(NodeAt(k)), i).ptr = null
         /\ i = LinkAt(k) => Val(NextOf(NodeAt(k)), i).ptr = NodeAt(k + 1)
         /\ i # NullAt(k) => k < End /\ LinkAt(k) <= i /\ LinkEvent(k) \in cur'[t]
         /\ i # NullAt(k) /\ ord \in Acquiring => Knowledge(k + 1) \subseteq cur'[t]
         /\ LinkAt(k) < i /\ ord \in Acquiring => Departure(k) \subseteq cur'[t] /\ k < HeadPos
         /\ LinkEvent(k) \in cur[t] => i # NullAt(k)
<1> DEFINE m == NodeAt(k)
           x == NextOf(m)
<1>1. m \in Node /\ k \in Nat /\ End \in Nat /\ HeadPos \in Nat /\ Newest(HeadPtr) = HeadPos + 1
  BY Positions
<1>2. x \in MSLoc /\ HeadPtr \in MSLoc
  BY <1>1, QueueLocations
<1>3. /\ i \in 1..Newest(x) /\ Newest(x) \in Nat
      /\ \A j \in Nat : <<x, j>> \in cur[t] => j <= i
      /\ cur[t] \subseteq cur'[t] /\ \A j \in 1..i : <<x, j>> \in cur'[t]
      /\ ord \in Acquiring => hist[x][i].view \subseteq cur'[t]
  BY <1>2, LoadFacts
<1>4. /\ NullAt(k) \in 1..Newest(x) /\ LinkAt(k) = NullAt(k) + 1
      /\ LinkAt(k) <= Newest(x) <=> k < End
  BY Fields
<1>5. NullAt(k) <= i
  <2>1. CASE k = 0
    <3>1. m = Dummy /\ Base(Dummy) = 1
      BY <2>1 DEF MSInv, Ends, Base
    <3>2. Uses(m, 0) = 0
      BY UsesStep DEF UsesLaw
    <3>3. NullAt(k) = 1 + 2 * 0
      BY <2>1, <3>1, <3>2 DEF NullAt, NullIndex
    <3> QED
      BY <1>3, <3>3
  <2>2. CASE k # 0
    <3>1. k \in 1..k
      BY <1>1, <2>2
    <3>2. NullEvent(k) \in cur[t]
      BY <1>1, <3>1, KnowledgeParts
    <3> QED
      BY <1>3, <1>4, <3>2 DEF NullEvent
  <2> QED
    BY <2>1, <2>2
<1>6. Val(x, i) \in Pointer /\ Val(x, i).ptr # POISON
  <2>1. /\ Val(x, i) \in Pointer
        /\ \/ i < Base(m) /\ Val(x, i).ptr = POISON
           \/ \E o \in Nat : i = NullIndex(m, o) /\ Val(x, i) = [ptr |-> null, count |-> o]
           \/ \E o \in Nat : i = LinkIndex(m, o) /\ Val(x, i).ptr \in Node
    BY <1>1, <1>3, NextValues
  <2>2. Base(m) <= i
    <3>1. NullAt(k) = Base(m) + 2 * Uses(m, k) /\ Base(m) \in {1, 2} /\ Uses(m, k) \in Nat
      BY <1>1, Bases, Fields DEF NullAt
    <3> QED
      BY <1>3, <1>5, <3>1
  <2>3. ~(i < Base(m))
    BY <1>1, <1>3, <2>2, Bases
  <2> QED
    BY <2>1, <2>3, IndexAssumption
<1>7. i = NullAt(k) => Val(x, i).ptr = null
  BY FieldValues
<1>8. i # NullAt(k) => k < End /\ LinkAt(k) <= i /\ LinkEvent(k) \in cur'[t]
  <2>1. SUFFICES ASSUME i # NullAt(k)
                 PROVE  k < End /\ LinkAt(k) <= i /\ LinkEvent(k) \in cur'[t]
    OBVIOUS
  <2>2. LinkAt(k) <= i /\ LinkAt(k) \in 1..i
    BY <1>3, <1>4, <1>5, <2>1
  <2>3. LinkAt(k) <= Newest(x)
    BY <1>3, <2>2
  <2> QED
    BY <1>3, <1>4, <2>2, <2>3 DEF LinkEvent
<1>9. i = LinkAt(k) => Val(x, i).ptr = NodeAt(k + 1)
  <2>1. i = LinkAt(k) => k < End
    BY <1>3, <1>4
  <2> QED
    BY <2>1, FieldValues
<1>10. i # NullAt(k) => /\ Knowledge(k + 1) \subseteq hist[x][i].view \cup {LinkEvent(k)}
                        /\ LinkAt(k) < i => Departure(k) \subseteq hist[x][i].view
  <2>1. SUFFICES ASSUME i # NullAt(k)
                 PROVE  /\ Knowledge(k + 1) \subseteq hist[x][i].view \cup {LinkEvent(k)}
                        /\ LinkAt(k) < i => Departure(k) \subseteq hist[x][i].view
    OBVIOUS
  <2>2. k \in 0..(End - 1) /\ i \in LinkAt(k)..Newest(x)
    BY <1>1, <1>3, <1>4, <1>8, <2>1
  <2> QED
    BY <1>1, <1>4, <2>2 DEF MSInv, Published
<1>11. LinkAt(k) < i => (i # NullAt(k) /\ (Departure(k) \subseteq hist[x][i].view => k < HeadPos))
  <2>1. SUFFICES ASSUME LinkAt(k) < i, Departure(k) \subseteq hist[x][i].view
                 PROVE  k < HeadPos
    BY <1>3, <1>4
  <2>2. <<HeadPtr, k + 2>> \in hist[x][i].view
    BY <1>1, <2>1 DEF Departure, HeadEvent
  <2>3. k + 2 <= Newest(HeadPtr)
    BY <1>1, <1>2, <1>3, <2>2 DEF MSInv, Causal
  <2> QED
    BY <1>1, <2>3
<1>12. LinkEvent(k) \in cur[t] => i # NullAt(k)
  BY <1>3, <1>4 DEF LinkEvent
<1> QED
  BY <1>2, <1>3, <1>5, <1>6, <1>7, <1>8, <1>9, <1>10, <1>11, <1>12

(* ---- enqueue ---------------------------------------------------------- *)
LEMMA LoadOwnNextStep ==
  ASSUME MSInv, NEW t \in Thread, Enqueue_LoadOwnNext(t)
  PROVE  MSInv' /\ Moves
<1>0. PICK n, x : n = loc[t].node /\ x = NextOf(n)
  OBVIOUS
<1>1. pc[t] = "loadOwn" /\ MoveTo(t, "initNext")
  BY DEF Enqueue_LoadOwnNext, Goto, MoveTo
<1>2. n \in Node /\ Holds(t, n)
  BY <1>0, <1>1 DEF MSInv, Apart, MakingLabel, Holds
<1>3. x \in MSLoc
  BY <1>0, <1>2, QueueLocations
<1>4. PICK i : Load(t, x, i, relaxed) /\ Set(t, "tmp", Val(x, i))
  BY <1>0 DEF Enqueue_LoadOwnNext, LoadInto
<1>5. Owns(t, n)
  BY <1>2 DEF MSInv, Owned
<1>6. /\ UNCHANGED <<free_lists, enqueues, dequeues, out>>
      /\ dequeues \in 0..MaxDequeues
  BY DEF Enqueue_LoadOwnNext, MSInv, MSTypes
<1>7. /\ i \in 1..Newest(x) /\ Newest(x) \in Nat
      /\ \A j \in Nat : <<x, j>> \in cur[t] => j <= i
      /\ \A u \in Thread \ {t} : cur'[u] = cur[u]
      /\ Newest(x)' = Newest(x) /\ \A j : Val(x, j)' = Val(x, j)
  BY <1>3, <1>4, <1>6, LoadFacts
<1>8. i = Newest(x)
  BY <1>0, <1>5, <1>7 DEF Owns
<1>9. Val(x, i) \in Pointer
  BY <1>0, <1>2, <1>7 DEF MSInv, MSTypes
<1>10. /\ loc' \in [Thread -> Local] /\ \A u \in Thread \ {t} : loc'[u] = loc[u]
       /\ loc'[t].node = n /\ loc'[t].tmp = Val(x, i)
  BY <1>0, <1>4, <1>9, SetLocal
<1>11. SameRole(t) /\ pc'[t] = "initNext"
  BY <1>0, <1>1, <1>6, <1>7, <1>10, RoleKept
     DEF MakingLabel, ReadyLabel, EnqueueLabel, QueueLabel
<1>12. Locals(t)'
  <2>1. loc'[t].tmp = Val(NextOf(loc[t].node), Newest(NextOf(loc[t].node)))'
    <3>1. NextOf(loc'[t].node) = x
      BY <1>0, <1>10
    <3>2. Val(NextOf(loc[t].node), Newest(NextOf(loc[t].node)))' = hist'[x][Newest(x)'].val
      BY <3>1 DEF Val, Newest
    <3>3. hist'[x][Newest(x)'].val = Val(x, i)
      BY <1>7, <1>8 DEF Val
    <3> QED
      BY <1>10, <3>2, <3>3
  <2> QED
    BY <1>11, <2>1 DEF Locals, TailLabel, HeadLabel
<1>13. ASSUME NEW k \in 0..(End - 1), LinkEvent(k) \in {<<x, j>> : j \in 1..i}
       PROVE  LinkEvent(k) \in cur[t]
  <2>1. End \in Nat /\ k \in 0..End
    BY Positions
  <2>2. NodeAt(k) = n
    <3>1. NextOf(NodeAt(k)) = x
      BY <1>13 DEF LinkEvent
    <3> QED
      BY <1>0, <3>1, QueueLocations
  <2>3. Knowledge(k + 1) \subseteq cur[t]
    BY <1>5, <2>1, <2>2 DEF Owns
  <2>4. k + 1 \in Nat /\ k + 1 \in 1..(k + 1) /\ (k + 1) - 1 = k
    BY <2>1
  <2> QED
    BY <2>3, <2>4, KnowledgeParts
<1> QED
  BY <1>1, <1>3, <1>4, <1>11, <1>12, <1>13, LoadStep

LEMMA LoadTailStep ==
  ASSUME MSInv, CountsFit, NEW t \in Thread, Enqueue_LoadTail(t)
  PROVE  MSInv' /\ Moves
<1>1. pc[t] = "loadTail" /\ MoveTo(t, "loadNext")
  BY DEF Enqueue_LoadTail, Goto, MoveTo
<1>2. PICK i : Load(t, TailPtr, i, acquire) /\ Set(t, "tail", Val(TailPtr, i))
  BY DEF Enqueue_LoadTail, LoadInto, OrderEnqTail
<1>3. TailPtr \in MSLoc
  BY QueueLocations
<1>4. /\ UNCHANGED <<free_lists, enqueues, dequeues, out>>
      /\ dequeues \in 0..MaxDequeues
  BY DEF Enqueue_LoadTail, MSInv, MSTypes
<1>5. /\ i \in 1..Newest(TailPtr) /\ TailPos' = TailPos
      /\ cur[t] \subseteq cur'[t] /\ \A j \in 1..i : <<TailPtr, j>> \in cur'[t]
      /\ acquire \in Acquiring => hist[TailPtr][i].view \subseteq cur'[t]
      /\ \A u \in Thread \ {t} : cur'[u] = cur[u]
      /\ \A k \in 0..End : Position(k)' = Position(k) /\ Knowledge(k)' = Knowledge(k)
  BY <1>2, <1>3, <1>4, LoadFacts
<1>6. /\ TailPos \in Nat /\ End \in Nat /\ TailPos <= End /\ Newest(TailPtr) = TailPos + 1
  BY Positions
<1>7. PICK p \in 0..TailPos : p = i - 1 /\ i = p + 1 /\ p \in 0..End
  BY <1>5, <1>6
<1>8. Val(TailPtr, i) = Position(p) /\ Position(p) \in Pointer
  BY <1>7, Counted DEF MSInv, Ends
<1>9. /\ loc' \in [Thread -> Local] /\ \A u \in Thread \ {t} : loc'[u] = loc[u]
      /\ loc'[t].node = loc[t].node /\ loc'[t].tail = Position(p)
  BY <1>2, <1>8, SetLocal
<1>10. SameRole(t) /\ pc'[t] = "loadNext"
  BY <1>1, <1>4, <1>5, <1>9, RoleKept DEF MakingLabel, ReadyLabel, EnqueueLabel, QueueLabel
<1>11. Knowledge(p) \subseteq cur'[t]
  <2>1. CASE p = 0
    BY <2>1, KnowledgeSteps DEF KnowledgeLaw
  <2>2. CASE p # 0
    <3>1. p \in 1..TailPos
      BY <1>7, <2>2
    <3>2. Knowledge(p) \subseteq hist[TailPtr][i].view
      BY <1>7, <3>1 DEF MSInv, Published
    <3> QED
      BY <1>5, <3>2 DEF Acquiring
  <2> QED
    BY <2>1, <2>2
<1>12. Locals(t)'
  <2>1. TailRead(t, p)'
    BY <1>5, <1>7, <1>9, <1>10, <1>11 DEF TailRead, TailEvent
  <2> QED
    BY <1>5, <1>7, <1>10, <2>1 DEF Locals, TailLabel, HeadLabel
<1> QED
  BY <1>1, <1>2, <1>3, <1>10, <1>12, LoadStep DEF Acquiring

LEMMA LoadNextStep ==
  ASSUME MSInv, NEW t \in Thread, Enqueue_LoadNext(t)
  PROVE  MSInv' /\ Moves
<1>1. pc[t] = "loadNext" /\ MoveTo(t, "recheckTail")
  BY DEF Enqueue_LoadNext, Goto, MoveTo
<1>2. PICK p \in 0..TailPos : TailRead(t, p)
  BY <1>1 DEF MSInv, Reading, Locals, TailLabel
<1>3. loc[t].tail = Position(p) /\ TailEvent(p) \in cur[t] /\ Knowledge(p) \subseteq cur[t]
  BY <1>2 DEF TailRead
<1> DEFINE x == NextOf(NodeAt(p))
<1>4. TailPos \in Nat /\ End \in Nat /\ TailPos <= End /\ p \in 0..End
      /\ \A k \in 0..End : NodeAt(k) \in Node
  BY Positions
<1>5. loc[t].tail.ptr = NodeAt(p)
  BY <1>3 DEF Position
<1>6. PICK i : Load(t, x, i, acquire) /\ Set(t, "next", Val(x, i))
  BY <1>5 DEF Enqueue_LoadNext, LoadInto, OrderEnqNext
<1>7. /\ UNCHANGED <<free_lists, enqueues, dequeues, out>>
      /\ dequeues \in 0..MaxDequeues
  BY DEF Enqueue_LoadNext, MSInv, MSTypes
<1>8. /\ x \in MSLoc /\ Val(x, i) \in Pointer
      /\ i = LinkAt(p) => Val(x, i).ptr = NodeAt(p + 1)
      /\ i # NullAt(p) => p < End /\ LinkAt(p) <= i /\ LinkEvent(p) \in cur'[t]
      /\ i \in Nat
      /\ LinkAt(p) < i => Departure(p) \subseteq cur'[t]
  BY <1>3, <1>4, <1>6, <1>7, NextRead DEF Acquiring
<1>9. /\ TailPos' = TailPos /\ End' = End /\ cur[t] \subseteq cur'[t]
      /\ \A u \in Thread \ {t} : cur'[u] = cur[u]
      /\ \A j : Val(x, j)' = Val(x, j)
      /\ NodeAt(p)' = NodeAt(p) /\ NullAt(p)' = NullAt(p) /\ LinkEvent(p)' = LinkEvent(p)
      /\ Position(p)' = Position(p) /\ Knowledge(p)' = Knowledge(p)
  BY <1>4, <1>6, <1>7, <1>8, LoadFacts
<1>10. /\ loc' \in [Thread -> Local] /\ \A u \in Thread \ {t} : loc'[u] = loc[u]
       /\ loc'[t].node = loc[t].node /\ loc'[t].tail = loc[t].tail /\ loc'[t].next = Val(x, i)
  BY <1>6, <1>8, SetLocal
<1>11. SameRole(t) /\ pc'[t] = "recheckTail"
  BY <1>1, <1>7, <1>9, <1>10, RoleKept DEF MakingLabel, ReadyLabel, EnqueueLabel, QueueLabel
<1>12. \/ loc'[t].next = Val(NextOf(NodeAt(p)), NullAt(p))'
       \/ p < End' /\ LinkEvent(p)' \in cur'[t] /\ loc'[t].next.ptr # null
       \/ TailEvent(p + 1) \in cur'[t]
  <2>1. CASE i = NullAt(p)
    <3>1. Val(NextOf(NodeAt(p)), NullAt(p))' = Val(x, NullAt(p))
      BY <1>9 DEF Val
    <3> QED
      BY <1>10, <2>1, <3>1
  <2>2. CASE i = LinkAt(p) /\ i # NullAt(p)
    <3>1. p + 1 \in 0..End
      BY <1>4, <1>8, <2>2
    <3>2. NodeAt(p + 1) # null
      BY <1>4, <3>1, IndexAssumption
    <3> QED
      BY <1>8, <1>9, <1>10, <2>2, <3>2
  <2>3. CASE i # LinkAt(p) /\ i # NullAt(p)
    <3>1. LinkAt(p) \in Nat
      BY <1>4, <1>8, <2>3, Fields
    <3>2. LinkAt(p) < i
      BY <1>8, <2>3, <3>1
    <3> QED
      BY <1>8, <3>2 DEF Departure
  <2> QED
    BY <2>1, <2>2, <2>3
<1>13. Locals(t)'
  <2>1. TailRead(t, p)'
    <3>1. loc'[t].tail = Position(p)' /\ TailEvent(p) \in cur'[t] /\ Knowledge(p)' \subseteq cur'[t]
      BY <1>3, <1>9, <1>10
    <3> QED
      BY <1>11, <1>12, <3>1 DEF TailRead, TailEvent
  <2> QED
    BY <1>9, <1>11, <2>1 DEF Locals, TailLabel, HeadLabel
<1> QED
  BY <1>1, <1>6, <1>8, <1>11, <1>13, LoadStep DEF Acquiring

LEMMA RecheckTailStep ==
  ASSUME MSInv, NEW t \in Thread, Enqueue_RecheckTail(t)
  PROVE  MSInv' /\ Moves
<1>1. PICK i : /\ Load(t, TailPtr, i, relaxed)
               /\ MoveTo(t, CASE Val(TailPtr, i) # loc[t].tail -> "loadTail"
                              [] Val(TailPtr, i) = loc[t].tail /\ loc[t].next.ptr = null -> "link"
                              [] OTHER -> "helpNext")
  BY DEF Enqueue_RecheckTail
<1>2. /\ pc[t] = "recheckTail" /\ loc' = loc
      /\ UNCHANGED <<free_lists, enqueues, dequeues, out>>
      /\ dequeues \in 0..MaxDequeues /\ loc \in [Thread -> Local]
  BY DEF Enqueue_RecheckTail, MSInv, MSTypes
<1>3. TailPtr \in MSLoc
  BY QueueLocations
<1>4. /\ i \in 1..Newest(TailPtr) /\ TailPos' = TailPos /\ End' = End
      /\ \A j \in Nat : <<TailPtr, j>> \in cur[t] => j <= i
      /\ cur[t] \subseteq cur'[t]
      /\ \A u \in Thread \ {t} : cur'[u] = cur[u]
      /\ \A y : \A j : Val(y, j)' = Val(y, j)
      /\ \A k \in 0..End :
           /\ NodeAt(k)' = NodeAt(k) /\ Position(k)' = Position(k)
           /\ NullAt(k)' = NullAt(k) /\ LinkEvent(k)' = LinkEvent(k)
           /\ Knowledge(k)' = Knowledge(k)
  BY <1>1, <1>2, <1>3, LoadFacts
<1>5. /\ TailPos \in Nat /\ End \in Nat /\ TailPos <= End /\ Newest(TailPtr) = TailPos + 1
  BY Positions
<1>6. PICK p \in 0..TailPos : TailRead(t, p)
  BY <1>2 DEF MSInv, Reading, Locals, TailLabel
<1>7. /\ loc[t].tail = Position(p) /\ TailEvent(p) \in cur[t] /\ Knowledge(p) \subseteq cur[t]
      /\ \/ loc[t].next = Val(NextOf(NodeAt(p)), NullAt(p))
         \/ p < End /\ LinkEvent(p) \in cur[t] /\ loc[t].next.ptr # null
         \/ TailEvent(p + 1) \in cur[t]
  BY <1>2, <1>6 DEF TailRead
<1>8. p \in 0..End
  BY <1>5
<1>9. \A k \in 0..(End - 1) : LinkEvent(k) \notin {<<TailPtr, j>> : j \in 1..i}
  BY PointerRead
<1>10. CASE Val(TailPtr, i) # loc[t].tail
  <2>1. MoveTo(t, "loadTail")
    BY <1>1, <1>10
  <2>2. SameRole(t) /\ pc'[t] = "loadTail"
    BY <1>2, <1>4, <2>1, RoleKept DEF MakingLabel, ReadyLabel, EnqueueLabel, QueueLabel
  <2>3. Locals(t)'
    BY <2>2, NoReading
  <2> QED
    BY <1>1, <1>2, <1>3, <1>9, <2>2, <2>3, LoadStep
<1>11. CASE Val(TailPtr, i) = loc[t].tail
  <2>1. TailEvent(p + 1) \notin cur[t]
    <3>1. i - 1 \in 0..TailPos /\ (i - 1) + 1 = i
      BY <1>4, <1>5
    <3>2. Val(TailPtr, i) = Position(i - 1)
      BY <3>1 DEF MSInv, Ends
    <3>3. i - 1 = p
      BY <1>7, <1>11, <3>2 DEF Position
    <3>4. p + 2 \in Nat /\ ~(p + 2 <= i) /\ (p + 1) + 1 = p + 2
      BY <1>4, <1>5, <3>3
    <3> QED
      BY <1>4, <3>4 DEF TailEvent
  <2>2. CASE loc[t].next.ptr = null
    <3>1. MoveTo(t, "link")
      BY <1>1, <1>11, <2>2
    <3>2. SameRole(t) /\ pc'[t] = "link"
      BY <1>2, <1>4, <3>1, RoleKept DEF MakingLabel, ReadyLabel, EnqueueLabel, QueueLabel
    <3>3. loc[t].next = Val(NextOf(NodeAt(p)), NullAt(p))
      BY <1>7, <2>1, <2>2
    <3>4. Val(NextOf(NodeAt(p)), NullAt(p))' = Val(NextOf(NodeAt(p)), NullAt(p))
      BY <1>4, <1>8 DEF Val
    <3>5. TailRead(t, p)'
      BY <1>2, <1>4, <1>7, <1>8, <3>2, <3>3, <3>4 DEF TailRead, TailEvent
    <3>6. Locals(t)'
      BY <1>4, <3>2, <3>5 DEF Locals, TailLabel, HeadLabel
    <3> QED
      BY <1>1, <1>2, <1>3, <1>9, <3>2, <3>6, LoadStep
  <2>3. CASE loc[t].next.ptr # null
    <3>1. MoveTo(t, "helpNext")
      BY <1>1, <1>11, <2>3
    <3>2. SameRole(t) /\ pc'[t] = "helpNext"
      BY <1>2, <1>4, <3>1, RoleKept DEF MakingLabel, ReadyLabel, EnqueueLabel, QueueLabel
    <3>3. Val(NextOf(NodeAt(p)), NullAt(p)).ptr = null
      BY <1>8, FieldValues
    <3>4. p < End /\ LinkEvent(p) \in cur[t]
      BY <1>7, <2>1, <2>3, <3>3
    <3>5. TailRead(t, p)'
      BY <1>2, <1>4, <1>7, <1>8, <3>2, <3>4 DEF TailRead, TailEvent
    <3>6. Locals(t)'
      BY <1>4, <3>2, <3>5 DEF Locals, TailLabel, HeadLabel
    <3> QED
      BY <1>1, <1>2, <1>3, <1>9, <3>2, <3>6, LoadStep
  <2> QED
    BY <2>2, <2>3
<1> QED
  BY <1>10, <1>11

LEMMA LinkFailsStep ==
  ASSUME MSInv, NEW t \in Thread, Enqueue_LinkFails(t)
  PROVE  MSInv' /\ Moves
<1>1. pc[t] = "link" /\ MoveTo(t, "helpNext")
  BY DEF Enqueue_LinkFails, Goto, MoveTo
<1>2. PICK p \in 0..TailPos : TailRead(t, p)
  BY <1>1 DEF MSInv, Reading, Locals, TailLabel
<1>3. /\ loc[t].tail = Position(p) /\ TailEvent(p) \in cur[t] /\ Knowledge(p) \subseteq cur[t]
      /\ loc[t].next = Val(NextOf(NodeAt(p)), NullAt(p))
  BY <1>1, <1>2 DEF TailRead
<1> DEFINE x == NextOf(NodeAt(p))
<1>4. TailPos \in Nat /\ End \in Nat /\ TailPos <= End /\ p \in 0..End
  BY Positions
<1>5. loc[t].tail.ptr = NodeAt(p)
  BY <1>3 DEF Position
<1>6. PICK i : Load(t, x, i, relaxed) /\ Val(x, i) # loc[t].next
  BY <1>5 DEF Enqueue_LinkFails, Mismatch
<1>7. /\ loc' = loc /\ UNCHANGED <<free_lists, enqueues, dequeues, out>>
      /\ dequeues \in 0..MaxDequeues /\ loc \in [Thread -> Local]
  BY DEF Enqueue_LinkFails, MSInv, MSTypes
<1>8. /\ x \in MSLoc
      /\ i # NullAt(p) => p < End /\ LinkEvent(p) \in cur'[t]
  BY <1>3, <1>4, <1>6, <1>7, NextRead
<1>9. p < End /\ LinkEvent(p) \in cur'[t]
  BY <1>3, <1>6, <1>8
<1>10. /\ TailPos' = TailPos /\ End' = End /\ cur[t] \subseteq cur'[t]
       /\ \A u \in Thread \ {t} : cur'[u] = cur[u]
       /\ LinkEvent(p)' = LinkEvent(p)
       /\ Position(p)' = Position(p) /\ Knowledge(p)' = Knowledge(p)
  BY <1>4, <1>6, <1>7, <1>8, LoadFacts
<1>11. SameRole(t) /\ pc'[t] = "helpNext"
  BY <1>1, <1>7, <1>10, RoleKept DEF MakingLabel, ReadyLabel, EnqueueLabel, QueueLabel
<1>12. Locals(t)'
  <2>1. TailRead(t, p)'
    BY <1>3, <1>7, <1>9, <1>10, <1>11 DEF TailRead, TailEvent
  <2> QED
    BY <1>10, <1>11, <2>1 DEF Locals, TailLabel, HeadLabel
<1>13. ASSUME NEW k \in 0..(End - 1), LinkEvent(k) \in {<<x, j>> : j \in 1..i}
       PROVE  NodeAt(k) = loc'[t].tail.ptr
  <2>1. NextOf(NodeAt(k)) = x
    BY <1>13 DEF LinkEvent
  <2> QED
    BY <1>5, <1>7, <2>1, QueueLocations
<1> QED
  BY <1>1, <1>6, <1>8, <1>11, <1>12, <1>13, LoadStep

LEMMA HelpLoadNextStep ==
  ASSUME MSInv, NEW t \in Thread, Enqueue_HelpLoadNext(t)
  PROVE  MSInv' /\ Moves
<1>1. pc[t] = "helpNext" /\ MoveTo(t, "helpTail")
  BY DEF Enqueue_HelpLoadNext, Goto, MoveTo
<1>2. PICK p \in 0..TailPos : TailRead(t, p)
  BY <1>1 DEF MSInv, Reading, Locals, TailLabel
<1>3. /\ loc[t].tail = Position(p) /\ TailEvent(p) \in cur[t] /\ Knowledge(p) \subseteq cur[t]
      /\ p < End /\ LinkEvent(p) \in cur[t]
  BY <1>1, <1>2 DEF TailRead
<1> DEFINE x == NextOf(NodeAt(p))
<1>4. TailPos \in Nat /\ End \in Nat /\ TailPos <= End /\ p \in 0..End
  BY Positions
<1>5. loc[t].tail.ptr = NodeAt(p)
  BY <1>3 DEF Position
<1>6. PICK i : Load(t, x, i, acquire) /\ Set(t, "next", Val(x, i))
  BY <1>5 DEF Enqueue_HelpLoadNext, LoadInto, OrderHelpNext
<1>7. /\ UNCHANGED <<free_lists, enqueues, dequeues, out>>
      /\ dequeues \in 0..MaxDequeues
  BY DEF Enqueue_HelpLoadNext, MSInv, MSTypes
<1>8. /\ x \in MSLoc /\ Val(x, i) \in Pointer /\ i \in Nat
      /\ i # NullAt(p) /\ LinkAt(p) <= i /\ Knowledge(p + 1) \subseteq cur'[t]
      /\ i = LinkAt(p) => Val(x, i).ptr = NodeAt(p + 1)
      /\ LinkAt(p) < i => p < HeadPos
  BY <1>3, <1>4, <1>6, <1>7, NextRead DEF Acquiring
<1>9. Val(x, i).ptr = NodeAt(p + 1) \/ p < HeadPos
  <2>1. LinkAt(p) \in Nat
    BY <1>3, <1>4, Fields
  <2> QED
    BY <1>8, <2>1
<1>10. p + 1 \in 0..End
  BY <1>3, <1>4
<1>11. /\ TailPos' = TailPos /\ End' = End /\ HeadPos' = HeadPos /\ cur[t] \subseteq cur'[t]
       /\ \A u \in Thread \ {t} : cur'[u] = cur[u]
       /\ NodeAt(p + 1)' = NodeAt(p + 1) /\ Knowledge(p + 1)' = Knowledge(p + 1)
       /\ Position(p)' = Position(p) /\ Knowledge(p)' = Knowledge(p)
  BY <1>4, <1>6, <1>7, <1>8, <1>10, LoadFacts
<1>12. /\ loc' \in [Thread -> Local] /\ \A u \in Thread \ {t} : loc'[u] = loc[u]
       /\ loc'[t].node = loc[t].node /\ loc'[t].tail = loc[t].tail /\ loc'[t].next = Val(x, i)
  BY <1>6, <1>8, SetLocal
<1>13. SameRole(t) /\ pc'[t] = "helpTail"
  BY <1>1, <1>7, <1>11, <1>12, RoleKept DEF MakingLabel, ReadyLabel, EnqueueLabel, QueueLabel
<1>14. Locals(t)'
  <2>1. TailRead(t, p)'
    BY <1>3, <1>8, <1>9, <1>11, <1>12, <1>13 DEF TailRead, TailEvent
  <2> QED
    BY <1>11, <1>13, <2>1 DEF Locals, TailLabel, HeadLabel
<1> QED
  BY <1>5, <1>6, <1>8, <1>13, <1>14, LoadStep DEF Acquiring

(* A compare_exchange changes what its thread has seen only.               *)
LEMMA OnlyMine ==
  ASSUME MSInv, NEW t \in Thread, NEW x, NEW old, NEW new, NEW ord,
         TryExchange(t, x, old, new, ord)
  PROVE  \A u \in Thread \ {t} : cur'[u] = cur[u]
<1>1. PICK V : cur' = [cur EXCEPT ![t] = V]
  BY DEF TryExchange, CompareExchange, Mismatch, ReadModifyWrite, Load
<1>2. cur \in [Thread -> SUBSET Events(MSLoc)]
  BY DEF MSInv, MSTypes, MemType
<1> QED
  BY <1>1, <1>2

(* A compare_exchange of head or tail that fails leaves all as it is.      *)
LEMMA MismatchStep ==
  ASSUME MSInv, NEW t \in Thread, NEW x, x \in {HeadPtr, TailPtr}, NEW old, Mismatch(t, x, old),
         SameRole(t), pc'[t] \in {"idle", "loadHead", "loadTail"}, pc[t] # "helpNext"
  PROVE  MSInv' /\ Moves
<1>1. PICK i : Load(t, x, i, relaxed)
  BY DEF Mismatch
<1>2. x \in MSLoc
  BY QueueLocations
<1>3. Locals(t)'
  BY NoReading
<1>4. \A k \in 0..(End - 1) : LinkEvent(k) \notin {<<x, j>> : j \in 1..i}
  BY PointerRead
<1> QED
  BY <1>1, <1>2, <1>3, <1>4, LoadStep

LEMMA HelpTailStep ==
  ASSUME MSInv, CountsFit, NEW t \in Thread, Enqueue_HelpTail(t)
  PROVE  MSInv' /\ Moves
<1>1. pc[t] = "helpTail" /\ MoveTo(t, "loadTail")
  BY DEF Enqueue_HelpTail, Goto, MoveTo
<1>2. PICK p \in 0..TailPos : TailRead(t, p)
  BY <1>1 DEF MSInv, Reading, Locals, TailLabel
<1>3. /\ loc[t].tail = Position(p) /\ p < End /\ Knowledge(p + 1) \subseteq cur[t]
      /\ loc[t].next.ptr = NodeAt(p + 1) \/ p < HeadPos
  BY <1>1, <1>2 DEF TailRead
<1>4. /\ loc' = loc /\ UNCHANGED <<free_lists, enqueues, dequeues, out>>
      /\ dequeues \in 0..MaxDequeues /\ loc \in [Thread -> Local]
  BY DEF Enqueue_HelpTail, MSInv, MSTypes
<1>5. TryExchange(t, TailPtr, loc[t].tail, Successor(loc[t].tail, loc[t].next.ptr), release)
  BY DEF Enqueue_HelpTail, OrderHelpTail
<1>6. \A u \in Thread \ {t} : cur'[u] = cur[u]
  BY <1>5, OnlyMine
<1>7. SameRole(t) /\ pc'[t] = "loadTail"
  BY <1>1, <1>4, <1>6, RoleKept DEF MakingLabel, ReadyLabel, EnqueueLabel, QueueLabel
<1>8. CASE Mismatch(t, TailPtr, loc[t].tail)
  BY <1>1, <1>7, <1>8, MismatchStep
<1>9. CASE CompareExchange(t, TailPtr, loc[t].tail,
                           Successor(loc[t].tail, loc[t].next.ptr), release)
  BY <1>1, <1>3, <1>7, <1>9, NoReading, TailStep
<1> QED
  BY <1>5, <1>8, <1>9 DEF TryExchange

LEMMA SwingTailStep ==
  ASSUME MSInv, CountsFit, NEW t \in Thread, Enqueue_SwingTail(t)
  PROVE  MSInv' /\ Moves
<1>1. pc[t] = "swingTail" /\ MoveTo(t, "idle")
  BY DEF Enqueue_SwingTail, Goto, MoveTo
<1>2. PICK p \in 0..TailPos : TailRead(t, p)
  BY <1>1 DEF MSInv, Reading, Locals, TailLabel
<1>3. /\ loc[t].tail = Position(p) /\ p < End /\ Knowledge(p + 1) \subseteq cur[t]
      /\ loc[t].node = NodeAt(p + 1)
  BY <1>1, <1>2 DEF TailRead
<1>4. /\ UNCHANGED <<free_lists, enqueues, dequeues, out>>
      /\ dequeues \in 0..MaxDequeues /\ loc \in [Thread -> Local]
      /\ loc' = [loc EXCEPT ![t] = NoLocals]
  BY DEF Enqueue_SwingTail, MSInv, MSTypes
<1>5. /\ loc' \in [Thread -> Local] /\ \A u \in Thread \ {t} : loc'[u] = loc[u]
      /\ loc'[t].node = null
  <2>1. NoLocals \in Local /\ NoLocals.node = null
    BY DEF NoLocals, Local
  <2> QED
    BY <1>4, <2>1
<1>6. TryExchange(t, TailPtr, loc[t].tail, Successor(loc[t].tail, loc[t].node), release)
  BY DEF Enqueue_SwingTail, OrderSwingTail
<1>7. \A u \in Thread \ {t} : cur'[u] = cur[u]
  BY <1>6, OnlyMine
<1>8. SameRole(t) /\ pc'[t] = "idle"
  BY <1>1, <1>4, <1>5, <1>7, RoleKept DEF MakingLabel, ReadyLabel, EnqueueLabel, QueueLabel
<1>9. CASE Mismatch(t, TailPtr, loc[t].tail)
  BY <1>1, <1>8, <1>9, MismatchStep
<1>10. CASE CompareExchange(t, TailPtr, loc[t].tail, Successor(loc[t].tail, loc[t].node), release)
  BY <1>1, <1>3, <1>8, <1>10, NoReading, TailStep
<1> QED
  BY <1>6, <1>9, <1>10 DEF TryExchange

(* ---- dequeue ---------------------------------------------------------- *)
LEMMA DeqHelpStep ==
  ASSUME MSInv, CountsFit, NEW t \in Thread, Dequeue_HelpTail(t)
  PROVE  MSInv' /\ Moves
<1>1. pc[t] = "deqHelp" /\ MoveTo(t, "loadHead")
  BY DEF Dequeue_HelpTail, Goto, MoveTo
<1>2. PICK h \in 0..HeadPos, q \in 0..TailPos : HeadRead(t, h, q)
  BY <1>1 DEF MSInv, Reading, Locals, HeadLabel
<1>3. /\ loc[t].tail = Position(q) /\ q = h /\ q < End /\ Knowledge(q + 1) \subseteq cur[t]
      /\ loc[t].next.ptr = NodeAt(q + 1)
  BY <1>1, <1>2 DEF HeadRead
<1>4. /\ loc' = loc /\ UNCHANGED <<free_lists, enqueues, dequeues, out>>
      /\ dequeues \in 0..MaxDequeues /\ loc \in [Thread -> Local]
  BY DEF Dequeue_HelpTail, MSInv, MSTypes
<1>5. TryExchange(t, TailPtr, loc[t].tail, Successor(loc[t].tail, loc[t].next.ptr), release)
  BY DEF Dequeue_HelpTail, OrderDeqHelpTail
<1>6. \A u \in Thread \ {t} : cur'[u] = cur[u]
  BY <1>5, OnlyMine
<1>7. SameRole(t) /\ pc'[t] = "loadHead"
  BY <1>1, <1>4, <1>6, RoleKept DEF MakingLabel, ReadyLabel, EnqueueLabel, QueueLabel
<1>8. CASE Mismatch(t, TailPtr, loc[t].tail)
  BY <1>1, <1>7, <1>8, MismatchStep
<1>9. CASE CompareExchange(t, TailPtr, loc[t].tail,
                           Successor(loc[t].tail, loc[t].next.ptr), release)
  BY <1>1, <1>3, <1>7, <1>9, NoReading, TailStep
<1> QED
  BY <1>5, <1>8, <1>9 DEF TryExchange

LEMMA UnlinkFailsStep ==
  ASSUME MSInv, NEW t \in Thread, Dequeue_UnlinkFails(t)
  PROVE  MSInv' /\ Moves
<1>1. pc[t] = "unlink" /\ MoveTo(t, "loadHead") /\ Mismatch(t, HeadPtr, loc[t].head)
  BY DEF Dequeue_UnlinkFails, Goto, MoveTo
<1>2. /\ loc' = loc /\ UNCHANGED <<free_lists, enqueues, dequeues, out>>
      /\ dequeues \in 0..MaxDequeues /\ loc \in [Thread -> Local]
  BY DEF Dequeue_UnlinkFails, MSInv, MSTypes
<1>3. \A u \in Thread \ {t} : cur'[u] = cur[u]
  BY <1>1, OnlyMine DEF TryExchange
<1>4. SameRole(t) /\ pc'[t] = "loadHead"
  BY <1>1, <1>2, <1>3, RoleKept DEF MakingLabel, ReadyLabel, EnqueueLabel, QueueLabel
<1> QED
  BY <1>1, <1>4, MismatchStep

LEMMA LoadHeadStep ==
  ASSUME MSInv, CountsFit, NEW t \in Thread, Dequeue_LoadHead(t)
  PROVE  MSInv' /\ Moves
<1>1. pc[t] = "loadHead" /\ MoveTo(t, "deqTail")
  BY DEF Dequeue_LoadHead, Goto, MoveTo
<1>2. PICK i : Load(t, HeadPtr, i, acquire) /\ Set(t, "head", Val(HeadPtr, i))
  BY DEF Dequeue_LoadHead, LoadInto, OrderDeqHead
<1>3. HeadPtr \in MSLoc /\ TailPtr \in MSLoc
  BY QueueLocations
<1>4. /\ UNCHANGED <<free_lists, enqueues, dequeues, out>>
      /\ dequeues \in 0..MaxDequeues
  BY DEF Dequeue_LoadHead, MSInv, MSTypes
<1>5. /\ i \in 1..Newest(HeadPtr) /\ HeadPos' = HeadPos /\ TailPos' = TailPos
      /\ cur[t] \subseteq cur'[t] /\ \A j \in 1..i : <<HeadPtr, j>> \in cur'[t]
      /\ acquire \in Acquiring => hist[HeadPtr][i].view \subseteq cur'[t]
      /\ \A u \in Thread \ {t} : cur'[u] = cur[u]
      /\ \A k \in 0..End : Position(k)' = Position(k) /\ Knowledge(k)' = Knowledge(k)
  BY <1>2, <1>3, <1>4, LoadFacts
<1>6. /\ HeadPos \in Nat /\ TailPos \in Nat /\ End \in Nat /\ HeadPos <= TailPos
      /\ TailPos <= End /\ Newest(HeadPtr) = HeadPos + 1
  BY Positions
<1>7. PICK h \in 0..HeadPos : h = i - 1 /\ i = h + 1 /\ h \in 0..End
  BY <1>5, <1>6
<1>8. Val(HeadPtr, i) = Position(h) /\ Position(h) \in Pointer
  BY <1>7, Counted DEF MSInv, Ends
<1>9. /\ loc' \in [Thread -> Local] /\ \A u \in Thread \ {t} : loc'[u] = loc[u]
      /\ loc'[t].node = loc[t].node /\ loc'[t].head = Position(h)
  BY <1>2, <1>8, SetLocal
<1>10. SameRole(t) /\ pc'[t] = "deqTail"
  BY <1>1, <1>4, <1>5, <1>9, RoleKept DEF MakingLabel, ReadyLabel, EnqueueLabel, QueueLabel, HeadLabel
<1>11. Knowledge(h) \cup {TailEvent(h)} \subseteq cur'[t]
  <2>1. CASE h = 0
    <3>1. TailEvent(0) \in cur[t]
      BY <1>3 DEF MSInv, Causal, TailEvent
    <3> QED
      BY <1>5, <2>1, <3>1, KnowledgeSteps DEF KnowledgeLaw
  <2>2. CASE h # 0
    <3>1. h \in 1..HeadPos
      BY <1>7, <2>2
    <3>2. Knowledge(h) \cup {TailEvent(h)} \subseteq hist[HeadPtr][i].view
      BY <1>7, <3>1 DEF MSInv, Published
    <3> QED
      BY <1>5, <3>2 DEF Acquiring
  <2> QED
    BY <2>1, <2>2
<1>12. Locals(t)'
  <2>1. HeadEvent(h) \in cur'[t]
    BY <1>5, <1>7 DEF HeadEvent
  <2>2. HeadRead(t, h, 0)'
    BY <1>5, <1>7, <1>9, <1>10, <1>11, <2>1 DEF HeadRead, HeadEvent, TailEvent
  <2>3. h \in 0..HeadPos' /\ 0 \in 0..TailPos'
    BY <1>5, <1>6
  <2> QED
    BY <1>10, <2>2, <2>3 DEF Locals, TailLabel
<1> QED
  BY <1>1, <1>2, <1>3, <1>10, <1>12, LoadStep DEF Acquiring

LEMMA DeqTailStep ==
  ASSUME MSInv, CountsFit, NEW t \in Thread, Dequeue_LoadTail(t)
  PROVE  MSInv' /\ Moves
<1>1. pc[t] = "deqTail" /\ MoveTo(t, "deqNext")
  BY DEF Dequeue_LoadTail, Goto, MoveTo
<1>2. PICK h \in 0..HeadPos : \E q \in 0..TailPos : HeadRead(t, h, q)
  BY <1>1 DEF MSInv, Reading, Locals, HeadLabel
<1>3. /\ loc[t].head = Position(h) /\ HeadEvent(h) \in cur[t] /\ TailEvent(h) \in cur[t]
      /\ Knowledge(h) \subseteq cur[t]
  BY <1>2 DEF HeadRead
<1>4. PICK i : Load(t, TailPtr, i, acquire) /\ Set(t, "tail", Val(TailPtr, i))
  BY DEF Dequeue_LoadTail, LoadInto, OrderDeqTail
<1>5. TailPtr \in MSLoc
  BY QueueLocations
<1>6. /\ UNCHANGED <<free_lists, enqueues, dequeues, out>>
      /\ dequeues \in 0..MaxDequeues
  BY DEF Dequeue_LoadTail, MSInv, MSTypes
<1>7. /\ i \in 1..Newest(TailPtr) /\ HeadPos' = HeadPos /\ TailPos' = TailPos
      /\ \A j \in Nat : <<TailPtr, j>> \in cur[t] => j <= i
      /\ cur[t] \subseteq cur'[t] /\ \A j \in 1..i : <<TailPtr, j>> \in cur'[t]
      /\ acquire \in Acquiring => hist[TailPtr][i].view \subseteq cur'[t]
      /\ \A u \in Thread \ {t} : cur'[u] = cur[u]
      /\ \A k \in 0..End : Position(k)' = Position(k) /\ Knowledge(k)' = Knowledge(k)
  BY <1>4, <1>5, <1>6, LoadFacts
<1>8. /\ HeadPos \in Nat /\ TailPos \in Nat /\ End \in Nat /\ HeadPos <= TailPos
      /\ TailPos <= End /\ Newest(TailPtr) = TailPos + 1
  BY Positions
<1>9. PICK q \in 0..TailPos : q = i - 1 /\ i = q + 1 /\ q \in 0..End
  BY <1>7, <1>8
<1>10. h \in 0..End /\ h <= q
  <2>1. h + 1 \in Nat
    OBVIOUS
  <2>2. h + 1 <= i
    BY <1>3, <1>7, <2>1 DEF TailEvent
  <2> QED
    BY <1>8, <1>9, <2>2
<1>11. Val(TailPtr, i) = Position(q) /\ Position(q) \in Pointer
  BY <1>9, Counted DEF MSInv, Ends
<1>12. /\ loc' \in [Thread -> Local] /\ \A u \in Thread \ {t} : loc'[u] = loc[u]
       /\ loc'[t].node = loc[t].node /\ loc'[t].head = loc[t].head
       /\ loc'[t].tail = Position(q)
  BY <1>4, <1>11, SetLocal
<1>13. SameRole(t) /\ pc'[t] = "deqNext"
  BY <1>1, <1>6, <1>7, <1>12, RoleKept DEF MakingLabel, ReadyLabel, EnqueueLabel, QueueLabel, HeadLabel
<1>14. Knowledge(q) \subseteq cur'[t]
  <2>1. CASE q = 0
    BY <2>1, KnowledgeSteps DEF KnowledgeLaw
  <2>2. CASE q # 0
    <3>1. q \in 1..TailPos
      BY <1>9, <2>2
    <3>2. Knowledge(q) \subseteq hist[TailPtr][i].view
      BY <1>9, <3>1 DEF MSInv, Published
    <3> QED
      BY <1>7, <3>2 DEF Acquiring
  <2> QED
    BY <2>1, <2>2
<1>15. Locals(t)'
  <2>1. \A j \in 0..q : TailEvent(j) \in cur'[t]
    <3>1. \A j \in 0..q : j + 1 \in 1..i
      BY <1>9
    <3> QED
      BY <1>7, <3>1 DEF TailEvent
  <2>2. HeadRead(t, h, q)'
    BY <1>3, <1>7, <1>9, <1>10, <1>12, <1>13, <1>14, <2>1 DEF HeadRead, HeadEvent, TailEvent
  <2> QED
    BY <1>7, <1>13, <2>2 DEF Locals, TailLabel
<1> QED
  BY <1>1, <1>4, <1>5, <1>13, <1>15, LoadStep DEF Acquiring

LEMMA DeqNextStep ==
  ASSUME MSInv, NEW t \in Thread, Dequeue_LoadNext(t)
  PROVE  MSInv' /\ Moves
<1>1. pc[t] = "deqNext" /\ MoveTo(t, "recheckHead")
  BY DEF Dequeue_LoadNext, Goto, MoveTo
<1>2. PICK h \in 0..HeadPos, q \in 0..TailPos : HeadRead(t, h, q)
  BY <1>1 DEF MSInv, Reading, Locals, HeadLabel
<1>3. /\ loc[t].head = Position(h) /\ HeadEvent(h) \in cur[t] /\ TailEvent(h) \in cur[t]
      /\ Knowledge(h) \subseteq cur[t]
      /\ h <= q /\ loc[t].tail = Position(q) /\ \A j \in 0..q : TailEvent(j) \in cur[t]
      /\ Knowledge(q) \subseteq cur[t]
  BY <1>1, <1>2 DEF HeadRead
<1> DEFINE x == NextOf(NodeAt(h))
<1>4. /\ HeadPos \in Nat /\ TailPos \in Nat /\ End \in Nat /\ HeadPos <= TailPos
      /\ TailPos <= End /\ h \in 0..End /\ q \in 0..End
  BY Positions
<1>5. loc[t].head.ptr = NodeAt(h)
  BY <1>3 DEF Position
<1>6. PICK i : Load(t, x, i, acquire) /\ Set(t, "next", Val(x, i))
  BY <1>5 DEF Dequeue_LoadNext, LoadInto, OrderDeqNext
<1>7. /\ UNCHANGED <<free_lists, enqueues, dequeues, out>>
      /\ dequeues \in 0..MaxDequeues
  BY DEF Dequeue_LoadNext, MSInv, MSTypes
<1>8. /\ x \in MSLoc /\ i \in Nat /\ Val(x, i) \in Pointer /\ Val(x, i).ptr # POISON
      /\ i = NullAt(h) => Val(x, i).ptr = null
      /\ i = LinkAt(h) => Val(x, i).ptr = NodeAt(h + 1)
      /\ i # NullAt(h) => h < End /\ LinkAt(h) <= i /\ Knowledge(h + 1) \subseteq cur'[t]
      /\ LinkAt(h) < i => Departure(h) \subseteq cur'[t]
      /\ LinkEvent(h) \in cur[t] => i # NullAt(h)
  BY <1>3, <1>4, <1>6, <1>7, NextRead DEF Acquiring
<1>9. /\ HeadPos' = HeadPos /\ TailPos' = TailPos /\ End' = End /\ cur[t] \subseteq cur'[t]
      /\ i \in 1..Newest(x)
      /\ \A e : e \in cur'[t] => \/ e \in cur[t] \/ e \in hist[x][i].view
                                 \/ \E j \in 1..i : e = <<x, j>>
      /\ \A u \in Thread \ {t} : cur'[u] = cur[u]
      /\ \A k \in 0..End :
           /\ NodeAt(k)' = NodeAt(k) /\ Position(k)' = Position(k)
           /\ LinkEvent(k)' = LinkEvent(k) /\ Knowledge(k)' = Knowledge(k)
  BY <1>6, <1>7, <1>8, LoadFacts
<1>10. /\ loc' \in [Thread -> Local] /\ \A u \in Thread \ {t} : loc'[u] = loc[u]
       /\ loc'[t].node = loc[t].node /\ loc'[t].head = loc[t].head
       /\ loc'[t].tail = loc[t].tail /\ loc'[t].next = Val(x, i)
  BY <1>6, <1>8, SetLocal
<1>11. SameRole(t) /\ pc'[t] = "recheckHead"
  BY <1>1, <1>7, <1>9, <1>10, RoleKept
     DEF MakingLabel, ReadyLabel, EnqueueLabel, QueueLabel, HeadLabel
<1>12. LinkAt(h) = NullAt(h) + 1 /\ NullAt(h) \in Nat
  BY <1>4, Fields
<1>13. ASSUME i = NullAt(h)
       PROVE  q = h /\ LinkEvent(h) \notin cur'[t]
  <2>1. LinkEvent(h) \notin cur[t]
    BY <1>8, <1>13
  <2>2. q = h
    <3>1. SUFFICES ASSUME h < q PROVE FALSE
      BY <1>3, <1>4
    <3>2. h + 1 \in 1..q /\ (h + 1) - 1 = h /\ q \in Nat
      BY <1>4, <3>1
    <3>3. LinkEvent((h + 1) - 1) \in Knowledge(q)
      BY <3>2, KnowledgeParts
    <3> QED
      BY <1>3, <2>1, <3>2, <3>3
  <2>3. LinkEvent(h) = <<x, LinkAt(h)>> /\ LinkAt(h) \in Nat /\ ~(LinkAt(h) <= i)
    BY <1>12, <1>13 DEF LinkEvent
  <2>4. LinkEvent(h) \notin hist[x][i].view
    <3>1. \A j \in Nat : <<x, j>> \in hist[x][i].view => j < i
      BY <1>8, <1>9 DEF MSInv, Causal
    <3> QED
      BY <1>12, <1>13, <2>3, <3>1
  <2>5. \A j \in 1..i : LinkEvent(h) # <<x, j>>
    BY <1>8, <2>3
  <2> QED
    BY <1>9, <2>1, <2>2, <2>4, <2>5
<1>14. \/ loc'[t].next.ptr = null /\ q = h /\ LinkEvent(h)' \notin cur'[t]
       \/ h < End' /\ loc'[t].next.ptr = NodeAt(h + 1)' /\ Knowledge(h + 1)' \subseteq cur'[t]
       \/ HeadEvent(h + 1) \in cur'[t]
  <2>1. CASE i = NullAt(h)
    BY <1>4, <1>8, <1>9, <1>10, <1>13, <2>1
  <2>2. CASE i = LinkAt(h) /\ i # NullAt(h)
    <3>1. h + 1 \in 0..End
      BY <1>4, <1>8, <2>2
    <3> QED
      BY <1>8, <1>9, <1>10, <2>2, <3>1
  <2>3. CASE i # LinkAt(h) /\ i # NullAt(h)
    <3>1. LinkAt(h) < i
      BY <1>8, <1>12, <2>3
    <3> QED
      BY <1>8, <3>1 DEF Departure
  <2> QED
    BY <2>1, <2>2, <2>3
<1>15. Locals(t)'
  <2>1. loc'[t].head = Position(h)' /\ loc'[t].tail = Position(q)'
        /\ Knowledge(h)' \subseteq cur'[t] /\ Knowledge(q)' \subseteq cur'[t]
    BY <1>3, <1>4, <1>9, <1>10
  <2>2. HeadEvent(h) \in cur'[t] /\ TailEvent(h) \in cur'[t] /\ \A j \in 0..q : TailEvent(j) \in cur'[t]
    BY <1>3, <1>9
  <2>3. loc'[t].next.ptr # POISON
    BY <1>8, <1>10
  <2>4. HeadRead(t, h, q)'
    BY <1>3, <1>11, <1>14, <2>1, <2>2, <2>3 DEF HeadRead, HeadEvent, TailEvent
  <2> QED
    BY <1>9, <1>11, <2>4 DEF Locals, TailLabel
<1> QED
  BY <1>1, <1>6, <1>8, <1>11, <1>15, LoadStep DEF Acquiring

(* What dequeue() knows when head has not moved since it was read.         *)
LEMMA HeadUnmoved ==
  ASSUME MSInv, NEW t \in Thread, NEW h \in 0..HeadPos, NEW q \in 0..TailPos, HeadRead(t, h, q),
         pc[t] = "recheckHead", NEW i \in Readable(t, HeadPtr, relaxed),
         Val(HeadPtr, i) = loc[t].head
  PROVE  /\ HeadEvent(h + 1) \notin cur[t]
         /\ NodeAt(h) = NodeAt(q) => h = q
         /\ \/ loc[t].next.ptr = null /\ q = h /\ LinkEvent(h) \notin cur[t]
            \/ /\ h < End /\ loc[t].next.ptr = NodeAt(h + 1) /\ loc[t].next.ptr # null
               /\ Knowledge(h + 1) \subseteq cur[t]
<1>1. /\ HeadPos \in Nat /\ TailPos \in Nat /\ End \in Nat /\ HeadPos <= TailPos
      /\ TailPos <= End /\ Newest(HeadPtr) = HeadPos + 1 /\ h \in 0..End /\ q \in 0..End
      /\ \A k \in 0..End : NodeAt(k) \in Node
  BY Positions
<1>2. /\ loc[t].head = Position(h) /\ h <= q /\ Knowledge(q) \subseteq cur[t]
      /\ \/ loc[t].next.ptr = null /\ q = h /\ LinkEvent(h) \notin cur[t]
         \/ h < End /\ loc[t].next.ptr = NodeAt(h + 1) /\ Knowledge(h + 1) \subseteq cur[t]
         \/ HeadEvent(h + 1) \in cur[t]
  BY DEF HeadRead
<1>3. i \in 1..Newest(HeadPtr) /\ i - 1 \in 0..HeadPos /\ (i - 1) + 1 = i /\ i \in Nat
  BY <1>1 DEF Readable
<1>4. Val(HeadPtr, i) = Position(i - 1)
  BY <1>3 DEF MSInv, Ends
<1>5. i = h + 1
  BY <1>2, <1>3, <1>4 DEF Position
<1>6. HeadEvent(h + 1) \notin cur[t]
  <2>1. HeadPtr \in MSLoc /\ h + 2 \in Nat /\ ~(h + 2 <= i) /\ (h + 1) + 1 = h + 2
    BY <1>1, <1>5, QueueLocations
  <2>2. <<HeadPtr, h + 2>> \notin cur[t]
    BY <2>1, NoOlder
  <2> QED
    BY <2>1, <2>2 DEF HeadEvent
<1>7. ASSUME NodeAt(h) = NodeAt(q)
      PROVE  h = q
  <2>1. SUFFICES ASSUME h < q PROVE FALSE
    BY <1>1, <1>2
  <2>2. q \in 1..q /\ h \in 0..(q - 1) /\ q \in Nat
    BY <1>1, <2>1
  <2>3. Departure(h) \subseteq Knowledge(q)
    BY <1>7, <2>2, KnowledgeParts
  <2> QED
    BY <1>2, <1>6, <2>3 DEF Departure
<1>8. h < End => NodeAt(h + 1) # null
  <2>1. h < End => h + 1 \in 0..End
    BY <1>1
  <2> QED
    BY <1>1, <2>1, IndexAssumption
<1> QED
  BY <1>2, <1>6, <1>7, <1>8

LEMMA RecheckHeadStep ==
  ASSUME MSInv, NEW t \in Thread, Dequeue_RecheckHead(t)
  PROVE  MSInv' /\ Moves
<1>1. PICK i, to :
        /\ to = CASE Val(HeadPtr, i) # loc[t].head -> "loadHead"
                  [] Val(HeadPtr, i) = loc[t].head /\ loc[t].head.ptr # loc[t].tail.ptr -> "value"
                  [] OTHER -> IF loc[t].next.ptr = null THEN "idle" ELSE "deqHelp"
        /\ Load(t, HeadPtr, i, relaxed) /\ MoveTo(t, to)
        /\ loc' = IF to = "idle" THEN [loc EXCEPT ![t] = NoLocals] ELSE loc
        /\ i \in Readable(t, HeadPtr, relaxed)
  BY DEF Dequeue_RecheckHead
<1>2. /\ pc[t] = "recheckHead"
      /\ UNCHANGED <<free_lists, enqueues, dequeues, out>>
      /\ dequeues \in 0..MaxDequeues /\ loc \in [Thread -> Local]
  BY DEF Dequeue_RecheckHead, MSInv, MSTypes
<1>3. HeadPtr \in MSLoc
  BY QueueLocations
<1>4. /\ HeadPos' = HeadPos /\ TailPos' = TailPos /\ End' = End
      /\ cur[t] \subseteq cur'[t]
      /\ \A u \in Thread \ {t} : cur'[u] = cur[u]
      /\ \A k \in 0..End :
           /\ NodeAt(k)' = NodeAt(k) /\ Position(k)' = Position(k)
           /\ Knowledge(k)' = Knowledge(k)
  BY <1>1, <1>2, <1>3, LoadFacts
<1>5. /\ HeadPos \in Nat /\ TailPos \in Nat /\ End \in Nat /\ HeadPos <= TailPos /\ TailPos <= End
  BY Positions
<1>6. PICK h \in 0..HeadPos, q \in 0..TailPos : HeadRead(t, h, q)
  BY <1>2 DEF MSInv, Reading, Locals, HeadLabel
<1>7. /\ loc[t].head = Position(h) /\ HeadEvent(h) \in cur[t] /\ TailEvent(h) \in cur[t]
      /\ Knowledge(h) \subseteq cur[t]
      /\ h <= q /\ loc[t].tail = Position(q) /\ \A j \in 0..q : TailEvent(j) \in cur[t]
      /\ Knowledge(q) \subseteq cur[t]
  BY <1>2, <1>6 DEF HeadRead
<1>8. \A k \in 0..(End - 1) : LinkEvent(k) \notin {<<HeadPtr, j>> : j \in 1..i}
  BY PointerRead
<1>9. to \in {"loadHead", "value", "idle", "deqHelp"}
  BY <1>1
<1>10. /\ loc' \in [Thread -> Local] /\ \A u \in Thread \ {t} : loc'[u] = loc[u]
       /\ loc'[t].node = loc[t].node \/ loc'[t].node = null
       /\ to # "idle" => loc' = loc
  <2>1. NoLocals \in Local /\ NoLocals.node = null
    BY DEF NoLocals, Local
  <2> QED
    BY <1>1, <1>2, <2>1
<1>11. SameRole(t) /\ pc'[t] = to
  <2>1. /\ to \in QueueLabel /\ to \notin MakingLabel /\ to \notin ReadyLabel
        /\ pc[t] \notin MakingLabel /\ pc[t] \notin ReadyLabel /\ pc[t] \notin EnqueueLabel
    BY <1>2, <1>9 DEF MakingLabel, ReadyLabel, EnqueueLabel, QueueLabel, HeadLabel
  <2> QED
    BY <1>1, <1>2, <1>4, <1>10, <2>1, RoleKept
<1>12. Locals(t)'
  <2>1. CASE to \in {"loadHead", "idle"}
    BY <1>11, <2>1, NoReading
  <2>2. CASE to \in {"value", "deqHelp"}
    <3>1. Val(HeadPtr, i) = loc[t].head /\ loc' = loc
      BY <1>1, <1>10, <2>2
    <3>2. /\ NodeAt(h) = NodeAt(q) => h = q
          /\ \/ loc[t].next.ptr = null /\ q = h
             \/ h < End /\ loc[t].next.ptr = NodeAt(h + 1) /\ Knowledge(h + 1) \subseteq cur[t]
      BY <1>1, <1>2, <1>6, <3>1, HeadUnmoved
    <3>3. loc[t].head.ptr = NodeAt(h) /\ loc[t].tail.ptr = NodeAt(q)
      BY <1>7 DEF Position
    <3>4. to = "value" => h < q
      BY <1>1, <1>5, <1>7, <3>1, <3>3
    <3>5. to = "deqHelp" => h = q /\ loc[t].next.ptr # null
      BY <1>1, <3>1, <3>2, <3>3
    <3>6. h < End /\ loc[t].next.ptr = NodeAt(h + 1) /\ Knowledge(h + 1) \subseteq cur[t]
      BY <1>5, <2>2, <3>2, <3>4, <3>5
    <3>7. h + 1 \in 0..End /\ h \in 0..End /\ q \in 0..End
      BY <1>5, <3>6
    <3>8. h < End' /\ loc'[t].next.ptr = NodeAt(h + 1)' /\ Knowledge(h + 1)' \subseteq cur'[t]
      BY <1>4, <3>1, <3>6, <3>7
    <3>9. loc'[t].head = Position(h)' /\ loc'[t].tail = Position(q)'
          /\ Knowledge(h)' \subseteq cur'[t] /\ Knowledge(q)' \subseteq cur'[t]
      BY <1>4, <1>7, <3>1, <3>7
    <3>10. HeadRead(t, h, q)'
      BY <1>4, <1>7, <1>11, <2>2, <3>4, <3>5, <3>8, <3>9 DEF HeadRead, HeadEvent, TailEvent
    <3> QED
      BY <1>4, <1>11, <2>2, <3>10 DEF Locals, TailLabel
  <2> QED
    BY <1>9, <2>1, <2>2
<1> QED
  BY <1>1, <1>2, <1>3, <1>8, <1>11, <1>12, LoadStep

LEMMA LoadValueStep ==
  ASSUME MSInv, NEW t \in Thread, Dequeue_LoadValue(t)
  PROVE  MSInv' /\ Moves
<1>1. pc[t] = "value" /\ MoveTo(t, "unlink")
  BY DEF Dequeue_LoadValue, Goto, MoveTo
<1>2. PICK h \in 0..HeadPos, q \in 0..TailPos : HeadRead(t, h, q)
  BY <1>1 DEF MSInv, Reading, Locals, HeadLabel
<1>3. /\ loc[t].head = Position(h) /\ HeadEvent(h) \in cur[t] /\ TailEvent(h) \in cur[t]
      /\ Knowledge(h) \subseteq cur[t]
      /\ h < q /\ loc[t].tail = Position(q) /\ \A j \in 0..q : TailEvent(j) \in cur[t]
      /\ Knowledge(q) \subseteq cur[t]
      /\ h < End /\ loc[t].next.ptr = NodeAt(h + 1) /\ Knowledge(h + 1) \subseteq cur[t]
  BY <1>1, <1>2 DEF HeadRead
<1>4. /\ HeadPos \in Nat /\ TailPos \in Nat /\ End \in Nat /\ HeadPos <= TailPos
      /\ TailPos <= End /\ h \in 0..End /\ q \in 0..End
      /\ \A k \in 0..End : NodeAt(k) \in Node
  BY Positions
<1>5. PICK k \in 0..End : k = h + 1 /\ k > 0
  BY <1>3, <1>4
<1>6. PICK m \in Node, x \in MSLoc : m = NodeAt(k) /\ x = Value(m)
  BY <1>4, QueueLocations
<1>7. PICK i : Load(t, x, i, relaxed) /\ Set(t, "val", Val(x, i))
  BY <1>3, <1>5, <1>6 DEF Dequeue_LoadValue, LoadInto
<1>8. /\ UNCHANGED <<free_lists, enqueues, dequeues, out>>
      /\ dequeues \in 0..MaxDequeues
  BY DEF Dequeue_LoadValue, MSInv, MSTypes
<1>9. x \in MSLoc
  BY <1>6, QueueLocations
<1>10. /\ i \in 1..Newest(x) /\ Newest(x) \in Nat
       /\ \A j \in Nat : <<x, j>> \in cur[t] => j <= i
       /\ HeadPos' = HeadPos /\ TailPos' = TailPos /\ End' = End /\ cur[t] \subseteq cur'[t]
       /\ \A u \in Thread \ {t} : cur'[u] = cur[u]
       /\ \A j \in 0..End :
            /\ NodeAt(j)' = NodeAt(j) /\ Position(j)' = Position(j)
            /\ Knowledge(j)' = Knowledge(j) /\ ItemAt(j)' = ItemAt(j)
  BY <1>7, <1>8, <1>9, LoadFacts
<1>11. ValueAt(k) \in 1..Newest(x) /\ ValueAt(k) >= 2
  BY <1>5, <1>6, Fields
<1>12. ValueAt(k) <= i
  <2>1. k \in 1..k /\ k \in Nat
    BY <1>5
  <2>2. ValueEvent(k) \in Knowledge(k)
    BY <2>1, KnowledgeParts
  <2>3. <<x, ValueAt(k)>> \in cur[t]
    BY <1>3, <1>5, <1>6, <2>2 DEF ValueEvent
  <2> QED
    BY <1>10, <1>11, <2>3
<1>13. Val(x, i) \in 1..enqueues /\ Val(x, i) \in Nat
  <2>1. i \in 2..Newest(x)
    BY <1>10, <1>11, <1>12
  <2> QED
    BY <1>6, <2>1, Bounded DEF MSInv, Items
<1>14. Val(x, i) = ItemAt(k) \/ h < HeadPos
  <2>1. SUFFICES ASSUME i # ValueAt(k), ~(h < HeadPos)
                 PROVE  FALSE
    BY <1>6 DEF ItemAt
  <2>2. k \in HeadPos..End /\ h = HeadPos
    BY <1>4, <1>5, <2>1
  <2>3. ~Making(m)
    <3>1. InList(m)
      BY <1>6, <2>2 DEF InList
    <3> QED
      BY <3>1 DEF MSInv, Apart, Making, Holds
  <2>4. Uses(m, End + 1) = Uses(m, k + 1)
    <3>1. \A j \in (k + 1)..End : NodeAt(j) # m
      <4>1. \A j \in (k + 1)..End : j \in HeadPos..End /\ j # k
        BY <1>4, <2>2
      <4> QED
        BY <1>6, <2>2, <4>1 DEF MSInv, Apart
    <3>2. {j \in 0..((End + 1) - 1) : NodeAt(j) = m} = {j \in 0..((k + 1) - 1) : NodeAt(j) = m}
      BY <1>4, <3>1
    <3> QED
      BY <3>2 DEF Uses
  <2>5. Uses(m, k + 1) = Uses(m, k) + 1 /\ Uses(m, k) \in Nat
    BY <1>6, UsesStep DEF UsesLaw
  <2>6. Newest(x) = Base(m) - 1 + Uses(m, End + 1)
    <3>1. Newest(x) = ValueLength(m)
      BY <1>6 DEF MSInv, Items
    <3>2. Base(m) \in {1, 2}
      BY Bases
    <3> QED
      BY <2>3, <2>4, <2>5, <3>1, <3>2 DEF ValueLength
  <2>7. ValueAt(k) = Base(m) + Uses(m, k) /\ Base(m) \in {1, 2}
    BY <1>6, Bases DEF ValueAt
  <2>8. Newest(x) = ValueAt(k)
    BY <2>4, <2>5, <2>6, <2>7
  <2> QED
    BY <1>10, <1>11, <1>12, <2>1, <2>8
<1>15. /\ loc' \in [Thread -> Local] /\ \A u \in Thread \ {t} : loc'[u] = loc[u]
       /\ loc'[t].node = loc[t].node /\ loc'[t].head = loc[t].head
       /\ loc'[t].tail = loc[t].tail /\ loc'[t].next = loc[t].next /\ loc'[t].val = Val(x, i)
  BY <1>7, <1>13, SetLocal
<1>16. SameRole(t) /\ pc'[t] = "unlink"
  BY <1>1, <1>8, <1>10, <1>15, RoleKept
     DEF MakingLabel, ReadyLabel, EnqueueLabel, QueueLabel, HeadLabel
<1>17. Locals(t)'
  <2>1. loc'[t].head = Position(h)' /\ loc'[t].tail = Position(q)'
        /\ Knowledge(h)' \subseteq cur'[t] /\ Knowledge(q)' \subseteq cur'[t]
    BY <1>3, <1>4, <1>10, <1>15
  <2>2. HeadEvent(h) \in cur'[t] /\ TailEvent(h) \in cur'[t] /\ \A j \in 0..q : TailEvent(j) \in cur'[t]
    BY <1>3, <1>10
  <2>3. h < End' /\ loc'[t].next.ptr = NodeAt(h + 1)' /\ Knowledge(h + 1)' \subseteq cur'[t]
    BY <1>3, <1>5, <1>10, <1>15
  <2>4. loc'[t].val \in 1..enqueues' /\ (loc'[t].val = ItemAt(h + 1)' \/ h < HeadPos')
    BY <1>5, <1>8, <1>10, <1>13, <1>14, <1>15
  <2>5. HeadRead(t, h, q)'
    BY <1>3, <1>16, <2>1, <2>2, <2>3, <2>4 DEF HeadRead, HeadEvent, TailEvent
  <2> QED
    BY <1>10, <1>16, <2>5 DEF Locals, TailLabel
<1>18. \A k1 \in 0..(End - 1) : LinkEvent(k1) \notin {<<x, j>> : j \in 1..i}
  BY <1>6, PointerRead
<1> QED
  BY <1>1, <1>7, <1>9, <1>16, <1>17, <1>18, LoadStep

(* A call of dequeue() touches no memory.                                  *)
LEMMA CallStep ==
  ASSUME MSInv, NEW t \in Thread, Dequeue_Call(t)
  PROVE  MSInv' /\ Moves
<1>1. /\ pc[t] = "idle" /\ MoveTo(t, "loadHead") /\ UNCHANGED memVars
      /\ UNCHANGED <<loc, free_lists, enqueues, out>> /\ loc \in [Thread -> Local]
      /\ dequeues < MaxDequeues /\ dequeues' = dequeues + 1 /\ dequeues \in 0..MaxDequeues
  BY DEF Dequeue_Call, Goto, MoveTo, MSInv, MSTypes
<1>2. dequeues' \in 0..MaxDequeues
  BY <1>1, MSQueueAssumption
<1>3. hist' = hist /\ cur' = cur /\ rel' = rel /\ acq' = acq /\ sc' = sc
  BY <1>1 DEF memVars
<1>4. SameRole(t) /\ pc'[t] = "loadHead"
  BY <1>1, <1>2, <1>3, RoleKept DEF MakingLabel, ReadyLabel, EnqueueLabel, QueueLabel
<1>5. /\ Grows /\ SameList /\ TailPos' = TailPos
      /\ \A k : NodeAt(k)' = NodeAt(k) /\ Position(k)' = Position(k)
      /\ \A y : Newest(y)' = Newest(y) /\ \A j : Val(y, j)' = Val(y, j)
  BY <1>1, <1>3, SameHist
<1>6. /\ Nexts' /\ Items' /\ Apart' /\ Owned'
      /\ End' + Cardinality(Makers') = enqueues'
      /\ \A u \in Thread \ {t} : Locals(u)'
  BY <1>4, <1>5, ListStays
<1>7. End' = End /\ HeadPos' = HeadPos
  BY <1>5 DEF SameList
<1>8. MSTypes'
  <2>1. \A y \in MSLoc : Linear(y)'
    BY <1>3 DEF MSInv, MSTypes, Linear
  <2>2. MemType(MSLoc, Content)'
    BY <1>3 DEF MSInv, MSTypes, MemType
  <2> QED
    BY <1>3, <1>4, <1>5, <2>1, <2>2 DEF MSInv, MSTypes, SameRole
<1>9. Causal'
  BY <1>3, <1>5 DEF MSInv, Causal
<1>10. Ends'
  BY <1>3, <1>5, <1>6, <1>7 DEF MSInv, Ends
<1>11. /\ End \in Nat /\ HeadPos <= TailPos /\ TailPos <= End /\ TailPos \in Nat /\ HeadPos \in Nat
  BY Positions
<1>12. \A k \in 0..End : /\ Knowledge(k)' = Knowledge(k) /\ LinkAt(k)' = LinkAt(k)
                         /\ LinkEvent(k)' = LinkEvent(k)
  BY <1>5, Stable
<1>13. Published'
  <2>1. \A k \in 1..TailPos : Knowledge(k)' = Knowledge(k)
    <3>1. \A k \in 1..TailPos : k \in 0..End
      BY <1>11
    <3> QED
      BY <1>12, <3>1
  <2>2. \A k \in 1..HeadPos : k \in 1..TailPos
    BY <1>11
  <2>3. ASSUME NEW k \in 0..(End - 1)
        PROVE  /\ Knowledge(k + 1)' = Knowledge(k + 1) /\ LinkAt(k)' = LinkAt(k)
               /\ LinkEvent(k)' = LinkEvent(k)
    <3>1. k \in 0..End /\ k + 1 \in 0..End
      BY <1>11
    <3> QED
      BY <1>12, <3>1
  <2>4. ASSUME NEW k \in 0..(End' - 1), NEW j \in (LinkAt(k)..Newest(NextOf(NodeAt(k))))'
        PROVE  /\ Knowledge(k + 1)' \subseteq (hist[NextOf(NodeAt(k))][j].view \cup {LinkEvent(k)})'
               /\ j > LinkAt(k)' => Departure(k) \subseteq (hist[NextOf(NodeAt(k))][j].view)'
    <3>1. k \in 0..(End - 1) /\ j \in LinkAt(k)..Newest(NextOf(NodeAt(k)))
      BY <1>5, <1>7, <2>3
    <3>2. /\ Knowledge(k + 1) \subseteq hist[NextOf(NodeAt(k))][j].view \cup {LinkEvent(k)}
          /\ j > LinkAt(k) => Departure(k) \subseteq hist[NextOf(NodeAt(k))][j].view
      BY <3>1 DEF MSInv, Published
    <3> QED
      BY <1>3, <1>5, <2>3, <3>1, <3>2
  <2> QED
    BY <1>3, <1>5, <1>7, <2>1, <2>2, <2>4 DEF MSInv, Published, Departure, HeadEvent, TailEvent
<1>14. Closures'
  <2>1. ASSUME NEW k \in 0..(End' - 1)
        PROVE  /\ k \in 0..(End - 1) /\ LinkEvent(k)' = LinkEvent(k)
               /\ \A j \in 0..(k - 1) : LinkEvent(j)' = LinkEvent(j)
    <3>1. k \in 0..(End - 1) /\ \A j \in 0..k : j \in 0..End
      BY <1>7, <1>11
    <3> QED
      BY <1>12, <3>1
  <2>2. \A y, n : Upto(y, n)' = Upto(y, n)
    BY <1>3 DEF Upto, Event
  <2>3. ASSUME NEW y \in MSLoc, NEW n \in 1..Newest(y)'
        PROVE  Closed(hist[y][n].view \cup Upto(y, n))'
    <3>1. Closed(hist[y][n].view \cup Upto(y, n))
      BY <1>5 DEF MSInv, Closures
    <3> QED
      BY <1>3, <2>1, <2>2, <3>1 DEF Closed
  <2>4. ASSUME NEW u \in Thread, NEW k \in 0..(End' - 1), NEW j \in 0..(k - 1),
               LinkEvent(k)' \in cur'[u]
        PROVE  \/ LinkEvent(j)' \in cur'[u]
               \/ pc'[u] = "helpNext" /\ NodeAt(k)' = loc'[u].tail.ptr
    <3>1. \/ LinkEvent(j) \in cur[u]
          \/ pc[u] = "helpNext" /\ NodeAt(k) = loc[u].tail.ptr
      BY <1>3, <2>1, <2>4 DEF MSInv, Closures
    <3>2. pc[u] = "helpNext" => pc'[u] = "helpNext"
      BY <1>1, <1>4 DEF SameRole, Others
    <3> QED
      BY <1>1, <1>3, <1>5, <2>1, <3>1, <3>2
  <2> QED
    BY <2>3, <2>4 DEF Closures
<1>15. Reading'
  BY <1>4, <1>6, NoReading DEF Reading
<1>16. Moves
  BY <1>5, <1>7 DEF Moves
<1> QED
  BY <1>6, <1>8, <1>9, <1>10, <1>13, <1>14, <1>15, <1>16 DEF MSInv

(* A step that changes nothing.                                            *)
LEMMA StutterStep ==
  ASSUME MSInv, UNCHANGED msVars
  PROVE  MSInv' /\ Moves
<1>1. /\ hist' = hist /\ cur' = cur /\ acq' = acq /\ rel' = rel /\ sc' = sc /\ pc' = pc
      /\ loc' = loc /\ free_lists' = free_lists /\ enqueues' = enqueues
      /\ dequeues' = dequeues /\ out' = out
  BY DEF msVars
<1>2. \A y : /\ Newest(y)' = Newest(y) /\ Ptr(y)' = Ptr(y)
              /\ \A j : Val(y, j)' = Val(y, j) /\ Upto(y, j)' = Upto(y, j)
  BY <1>1 DEF Newest, Val, Ptr, Upto, Event
<1>3. HeadPos' = HeadPos /\ TailPos' = TailPos /\ AfterTail' = AfterTail /\ End' = End
  <2>1. HeadPos' = HeadPos /\ TailPos' = TailPos
    BY <1>1 DEF HeadPos, TailPos, Newest
  <2>2. AfterTail' = AfterTail
    BY <1>1 DEF AfterTail, Ptr, Val, Newest
  <2> QED
    BY <2>1, <2>2 DEF End
<1>4. \A k : NodeAt(k)' = NodeAt(k) /\ Position(k)' = Position(k)
  BY <1>1, <1>3 DEF NodeAt, Val, Position
<1>5. \A m, k : Uses(m, k)' = Uses(m, k)
  BY <1>4 DEF Uses
<1>6. \A k : NullAt(k)' = NullAt(k) /\ LinkAt(k)' = LinkAt(k) /\ ValueAt(k)' = ValueAt(k)
  BY <1>4, <1>5 DEF NullAt, LinkAt, ValueAt, NullIndex, LinkIndex, Base
<1>7. \A k : /\ ItemAt(k)' = ItemAt(k) /\ NullEvent(k)' = NullEvent(k)
              /\ LinkEvent(k)' = LinkEvent(k) /\ ValueEvent(k)' = ValueEvent(k)
  BY <1>1, <1>4, <1>6 DEF ItemAt, NullEvent, LinkEvent, ValueEvent, Val
<1>8. \A k : Knowledge(k)' = Knowledge(k)
  <2>1. \A k : Arrival(k)' = Arrival(k)
    BY <1>4, <1>7 DEF Arrival, Departure, HeadEvent, TailEvent
  <2> QED
    BY <2>1 DEF Knowledge
<1>9. \A m : /\ Making(m)' = Making(m) /\ Ready(m)' = Ready(m) /\ InList(m)' = InList(m)
              /\ \A u : Holds(u, m)' = Holds(u, m)
  BY <1>1, <1>3, <1>4 DEF Making, Ready, Holds, InList
<1>10. MSTypes'
  BY <1>1 DEF MSInv, MSTypes, MemType, Linear, Newest, Val
<1>11. Causal'
  BY <1>1, <1>2 DEF MSInv, Causal
<1>12. Ends'
  BY <1>1, <1>2, <1>3, <1>4 DEF MSInv, Ends, Makers
<1>13. Nexts'
  <2>1. \A m : NextLength(m)' = NextLength(m)
    BY <1>1, <1>3, <1>4, <1>5, <1>9 DEF NextLength
  <2>2. ASSUME NEW k \in 0..(End' - 1)
        PROVE  Val(NextOf(NodeAt(k)), LinkAt(k))'.ptr = NodeAt(k + 1)'
    <3>1. Val(NextOf(NodeAt(k)), LinkAt(k)).ptr = NodeAt(k + 1)
      BY <1>3 DEF MSInv, Nexts
    <3> QED
      BY <1>1, <1>4, <1>6, <3>1 DEF Val
  <2> QED
    BY <1>1, <1>2, <2>1, <2>2 DEF MSInv, Nexts, NullIndex, LinkIndex, Base, Val
<1>14. Items'
  <2>1. \A m : ValueLength(m)' = ValueLength(m)
    BY <1>1, <1>3, <1>5, <1>9 DEF ValueLength
  <2>2. out' = [k \in 1..HeadPos' |-> ItemAt(k)']
    BY <1>1, <1>3, <1>7 DEF MSInv, Items
  <2>3. \A p \in Node : Newest(Value(p))' = ValueLength(p)'
    BY <1>2, <2>1 DEF MSInv, Items
  <2>4. \A p \in Node : \A i \in 2..Newest(Value(p))' : Val(Value(p), i)' \in 1..enqueues'
    BY <1>1, <1>2 DEF MSInv, Items
  <2>5. \A p, q \in Node : \A i \in 2..Newest(Value(p))', j \in 2..Newest(Value(q))' :
          Val(Value(p), i)' = Val(Value(q), j)' => p = q /\ i = j
    BY <1>2 DEF MSInv, Items
  <2> QED
    BY <2>2, <2>3, <2>4, <2>5 DEF Items
<1>15. Apart'
  BY <1>1, <1>3, <1>4, <1>9 DEF MSInv, Apart
<1>16. Owned'
  BY <1>1, <1>2, <1>3, <1>4, <1>8, <1>9 DEF MSInv, Owned, Owns, Departure, HeadEvent, TailEvent
<1>17. Published'
  <2>1. ASSUME NEW k \in 0..(End' - 1), NEW j \in (LinkAt(k)..Newest(NextOf(NodeAt(k))))'
        PROVE  /\ Knowledge(k + 1)' \subseteq (hist[NextOf(NodeAt(k))][j].view \cup {LinkEvent(k)})'
               /\ j > LinkAt(k)' => Departure(k) \subseteq (hist[NextOf(NodeAt(k))][j].view)'
    <3>1. k \in 0..(End - 1) /\ j \in LinkAt(k)..Newest(NextOf(NodeAt(k)))
      BY <1>2, <1>3, <1>4, <1>6
    <3>2. /\ Knowledge(k + 1) \subseteq hist[NextOf(NodeAt(k))][j].view \cup {LinkEvent(k)}
          /\ j > LinkAt(k) => Departure(k) \subseteq hist[NextOf(NodeAt(k))][j].view
      BY <3>1 DEF MSInv, Published
    <3> QED
      BY <1>1, <1>4, <1>6, <1>7, <1>8, <3>2
  <2> QED
    BY <1>1, <1>3, <1>8, <2>1 DEF MSInv, Published, Departure, HeadEvent, TailEvent
<1>18. Closures'
  <2>1. ASSUME NEW y \in MSLoc, NEW n \in 1..Newest(y)'
        PROVE  Closed(hist[y][n].view \cup Upto(y, n))'
    <3>1. Closed(hist[y][n].view \cup Upto(y, n))
      BY <1>2 DEF MSInv, Closures
    <3> QED
      BY <1>1, <1>2, <1>3, <1>7, <3>1 DEF Closed
  <2> QED
    BY <1>1, <1>3, <1>4, <1>7, <2>1 DEF MSInv, Closures
<1>19. Grows
  <2>1. \A x \in MSLoc : Newest(x) \in Nat
    BY QueueLengths DEF MSInv
  <2>2. enqueues \in Nat
    BY Bounded
  <2> QED
    BY <1>1, <1>2, <1>3, <1>4, <2>1, <2>2, Positions DEF Grows
<1>20. Reading'
  <2>1. \A u \in Thread : Locals(u)'
    BY <1>1, <1>19, LocalsStay
  <2> QED
    BY <2>1 DEF Reading
<1>21. Moves
  BY <1>3, <1>19 DEF Moves
<1> QED
  BY <1>10, <1>11, <1>12, <1>13, <1>14, <1>15, <1>16, <1>17, <1>18, <1>20, <1>21 DEF MSInv

-----------------------------------------------------------------------------
(* t writes to a field of a node that is its own.                          *)
LEMMA FieldStep ==
  ASSUME MSInv, NEW t \in Thread, NEW n \in Node, Holds(t, n), NEW x, NEW v, NEW view,
         (x = NextOf(n) /\ view = cur[t]) \/ (x = Value(n) /\ view = {}),
         Written(t, x, v, view, "store"), Others(t), pc[t] # "helpNext",
         enqueues' \in Nat, enqueues <= enqueues'
  PROVE  /\ x \in MSLoc \ {HeadPtr, TailPtr} /\ Newest(x) \in Nat /\ Newest(x) >= 1
         /\ Newest(x)' = Newest(x) + 1
         /\ \A y \in MSLoc \ {x} : hist'[y] = hist[y] /\ Newest(y)' = Newest(y)
         /\ \A i \in 1..Newest(x) : hist'[x][i] = hist[x][i]
         /\ hist'[x][Newest(x) + 1].val = v
         /\ ~InList(n) /\ \A u \in Thread \ {t} : ~Holds(u, n)
         /\ HeadPos' = HeadPos /\ TailPos' = TailPos /\ End' = End /\ Grows
         /\ \A m : InList(m)' = InList(m)
         /\ MemType(MSLoc, Content)' /\ rel' = rel /\ (\A y \in MSLoc : Linear(y)') /\ Causal'
         /\ End' + Cardinality(Makers') = enqueues' => Ends'
         /\ Published' /\ Closures'
         /\ \A u \in Thread, m \in Node : Holds(u, m) => Owns(u, m)'
         /\ \A u \in Thread \ {t} : Locals(u)'
<1>1. /\ HeadPos \in Nat /\ TailPos \in Nat /\ End \in Nat /\ HeadPos <= TailPos /\ TailPos <= End
      /\ \A k \in 0..End : NodeAt(k) \in Node
      /\ Ptr(TailPtr) = NodeAt(TailPos)
  BY Positions
<1>2. /\ x \in MSLoc \ {HeadPtr, TailPtr} /\ HeadPtr \in MSLoc /\ TailPtr \in MSLoc
      /\ \A m \in Node : NextOf(m) \in MSLoc /\ Value(m) \in MSLoc
      /\ \A m \in Node : m # n => NextOf(m) # x /\ Value(m) # x
  BY QueueLocations
<1>3. view \subseteq Joined(t, x)
  BY DEF Joined
<1>4. /\ Newest(x) \in Nat /\ Newest(x) >= 1 /\ Newest(x)' = Newest(x) + 1
      /\ \A y \in MSLoc \ {x} : hist'[y] = hist[y] /\ Newest(y)' = Newest(y)
      /\ \A i \in 1..Newest(x) : hist'[x][i] = hist[x][i]
      /\ \A y \in MSLoc : Linear(y)'
      /\ \A y \in MSLoc : /\ Newest(y) <= Newest(y)' /\ Newest(y)' \in Nat
                          /\ \A i \in 1..Newest(y) : hist'[y][i] = hist[y][i]
      /\ \A u \in Thread : cur[u] \subseteq cur'[u]
      /\ NextEvent(x) = <<x, Newest(x) + 1>>
      /\ Upto(x, Newest(x)) = {<<x, j>> : j \in 1..Newest(x)}
      /\ Causal'
  BY <1>2, <1>3, WriteMemory
<1>5. /\ hist'[x][Newest(x) + 1].val = v /\ hist'[x][Newest(x) + 1].view = view
      /\ NextEvent(x) \in cur'[t] /\ MemType(MSLoc, Content)' /\ rel' = rel
  BY DEF Written
<1>6. ~InList(n) /\ \A u \in Thread \ {t} : ~Holds(u, n)
  BY DEF MSInv, Apart
<1>7. Owns(t, n)
  BY DEF MSInv, Owned
<1>8. /\ TailPos' = TailPos /\ HeadPos' = HeadPos
      /\ hist'[TailPtr] = hist[TailPtr] /\ hist'[HeadPtr] = hist[HeadPtr]
  BY <1>2, <1>4 DEF TailPos, HeadPos
<1>9. AfterTail' = AfterTail
  <2>1. PICK m \in Node : m = NodeAt(TailPos)
    BY <1>1
  <2>2. m # n
    <3>1. TailPos \in HeadPos..End
      BY <1>1
    <3> QED
      BY <1>6, <2>1, <3>1 DEF InList
  <2>3. NextOf(m) \in MSLoc \ {x}
    BY <1>2, <2>2
  <2>4. Ptr(TailPtr)' = m /\ Ptr(TailPtr) = m
    BY <1>1, <1>8, <2>1 DEF Ptr, Val, Newest
  <2>5. Ptr(NextOf(m))' = Ptr(NextOf(m))
    BY <1>4, <2>3 DEF Ptr, Val
  <2> QED
    BY <2>4, <2>5 DEF AfterTail
<1>10. End' = End
  BY <1>8, <1>9 DEF End
<1>11. \A k : NodeAt(k)' = NodeAt(k)
  BY <1>8, <1>9 DEF NodeAt, Val
<1>12. Grows
  BY <1>1, <1>4, <1>8, <1>10, <1>11 DEF Grows
<1>13. \A m : InList(m)' = InList(m)
  BY <1>8, <1>10, <1>11 DEF InList
<1>14. \A k \in 0..End :
         /\ LinkAt(k)' = LinkAt(k) /\ LinkEvent(k)' = LinkEvent(k)
         /\ Knowledge(k)' = Knowledge(k)
  BY <1>12, Stable
<1>15. /\ NodeAt(0)' = Dummy
       /\ \A k \in 0..End : NodeAt(k)' \in Node
       /\ \A k \in 0..TailPos : Val(TailPtr, k + 1)' = Position(k)'
       /\ \A k \in 0..HeadPos : Val(HeadPtr, k + 1)' = Position(k)'
       /\ \A j \in 2..Newest(HeadPtr) : hist'[HeadPtr][j].kind = "rmw"
       /\ \A j \in 2..Newest(TailPtr) : hist'[TailPtr][j].kind = "rmw"
       /\ \A k \in 1..TailPos : Knowledge(k)' \subseteq hist'[TailPtr][k + 1].view
       /\ \A k \in 1..HeadPos :
            Knowledge(k)' \cup {TailEvent(k)} \subseteq hist'[HeadPtr][k + 1].view
       /\ \A k \in 0..(End - 1) : \A j \in LinkAt(k)..Newest(NextOf(NodeAt(k))) :
            LET w == hist'[NextOf(NodeAt(k))][j].view
            IN  /\ Knowledge(k + 1)' \subseteq w \cup {LinkEvent(k)}
                /\ j > LinkAt(k) => Departure(k) \subseteq w
  BY <1>12, PointersStay
<1>16. ASSUME End' + Cardinality(Makers') = enqueues'
       PROVE  Ends'
  <2>1. Newest(HeadPtr)' = Newest(HeadPtr) /\ Newest(TailPtr)' = Newest(TailPtr)
    BY <1>8 DEF Newest
  <2>2. HeadPos' \in 0..TailPos'
    BY <1>1, <1>8
  <2> QED
    BY <1>8, <1>10, <1>15, <1>16, <2>1, <2>2 DEF Ends
(* What t owns has left the list, and t knows it.                          *)
<1>17. ASSUME NEW k \in 0..End, NodeAt(k) = n
       PROVE  /\ Knowledge(k + 1) \subseteq cur[t] /\ Departure(k) \subseteq cur[t]
              /\ LinkEvent(k) \in cur[t]
  <2>1. Knowledge(k + 1) \subseteq cur[t] /\ Departure(k) \subseteq cur[t]
    BY <1>7, <1>17 DEF Owns
  <2>2. k + 1 \in Nat /\ k + 1 \in 1..(k + 1) /\ (k + 1) - 1 = k
    OBVIOUS
  <2>3. LinkEvent((k + 1) - 1) \in Knowledge(k + 1)
    BY <2>2, KnowledgeParts
  <2> QED
    BY <2>1, <2>2, <2>3
<1>18. Published'
  <2>1. ASSUME NEW k \in 0..(End' - 1), NEW j \in (LinkAt(k)..Newest(NextOf(NodeAt(k))))'
        PROVE  /\ Knowledge(k + 1)' \subseteq (hist[NextOf(NodeAt(k))][j].view \cup {LinkEvent(k)})'
               /\ j > LinkAt(k)' => Departure(k) \subseteq (hist[NextOf(NodeAt(k))][j].view)'
    <3>1. k \in 0..(End - 1) /\ k \in 0..End /\ k + 1 \in 0..End /\ NodeAt(k) \in Node
      BY <1>1, <1>10
    <3>2. /\ NodeAt(k)' = NodeAt(k) /\ LinkAt(k)' = LinkAt(k) /\ LinkEvent(k)' = LinkEvent(k)
          /\ LinkAt(k) \in Nat /\ Knowledge(k + 1)' = Knowledge(k + 1)
      BY <1>11, <1>14, <3>1, Fields
    <3>3. j \in LinkAt(k)..(Newest(NextOf(NodeAt(k)))')
      BY <3>2
    <3>4. CASE j \in LinkAt(k)..Newest(NextOf(NodeAt(k)))
      BY <1>15, <3>1, <3>2, <3>4
    <3>5. CASE j \notin LinkAt(k)..Newest(NextOf(NodeAt(k)))
      <4>1. NextOf(NodeAt(k)) = x
        BY <1>2, <1>4, <3>1, <3>2, <3>3, <3>5
      <4>2. j = Newest(x) + 1 /\ NodeAt(k) = n /\ view = cur[t]
        BY <1>2, <1>4, <3>1, <3>2, <3>3, <3>5, <4>1, QueueLocations
      <4>3. hist'[NextOf(NodeAt(k))][j].view = cur[t]
        BY <1>5, <4>1, <4>2
      <4> QED
        BY <1>17, <3>1, <3>2, <4>2, <4>3
    <3> QED
      BY <3>4, <3>5
  <2> QED
    BY <1>8, <1>15, <2>1 DEF Published, Departure, HeadEvent, TailEvent
<1>19. Closures'
  <2>1. \A k \in 0..(End - 1) : LinkEvent(k) \in Upto(x, Newest(x)) => LinkEvent(k) \in cur[t]
    <3>1. ASSUME NEW k \in 0..(End - 1), LinkEvent(k) \in Upto(x, Newest(x))
          PROVE  LinkEvent(k) \in cur[t]
      <4>1. NextOf(NodeAt(k)) = x /\ k \in 0..End /\ NodeAt(k) \in Node
        BY <1>1, <1>4, <3>1 DEF LinkEvent
      <4>2. NodeAt(k) = n
        BY <1>2, <4>1
      <4> QED
        BY <1>17, <4>1, <4>2
    <3> QED
      BY <3>1
  <2>2. \A k \in 0..(End - 1) : \A j \in 0..(k - 1) : j \in 0..(End - 1)
    BY <1>1
  <2>3. Closed(cur[t])
    BY ClosedView
  <2>4. Closed(cur[t] \cup Upto(x, Newest(x)))
    BY <2>1, <2>2, <2>3 DEF Closed
  <2>5. Closed(view \cup Upto(x, Newest(x)))
    <3>1. CASE view = cur[t]
      BY <2>4, <3>1
    <3>2. CASE view = {} /\ x = Value(n)
      <4>1. \A k \in 0..(End - 1) : LinkEvent(k) \notin Upto(x, Newest(x))
        BY <1>4, <3>2, QueueLocations DEF LinkEvent
      <4> QED
        BY <3>2, <4>1 DEF Closed
    <3> QED
      BY <3>1, <3>2
  <2> QED
    BY <1>2, <1>3, <1>10, <1>12, <2>4, <2>5, ClosuresStay
<1>20. ASSUME NEW u \in Thread, NEW m \in Node, Holds(u, m)
       PROVE  Owns(u, m)'
  <2>1. CASE m # n
    <3>1. hist'[NextOf(m)] = hist[NextOf(m)] /\ hist'[Value(m)] = hist[Value(m)]
      BY <1>2, <1>4, <2>1
    <3> QED
      BY <1>10, <1>12, <1>20, <3>1, OwnersStay
  <2>2. CASE m = n
    <3>1. u = t
      BY <1>6, <1>20, <2>2
    <3>2. \A y \in {NextOf(n), Value(n)} :
            <<y, Newest(y)>> \in cur[t] /\ y \in MSLoc
      BY <1>2, <1>7 DEF Owns
    <3>3. \A y \in {NextOf(n), Value(n)} : <<y, Newest(y)'>> \in cur'[t]
      BY <1>4, <1>5, <3>2
    <3>4. ASSUME NEW p \in 0..End', NodeAt(p)' = n
          PROVE  p < HeadPos' /\ Knowledge(p + 1)' \subseteq cur'[t] /\ Departure(p) \subseteq cur'[t]
      <4>1. p \in 0..End /\ NodeAt(p) = n
        BY <1>10, <1>11, <3>4
      <4>2. p < HeadPos /\ Knowledge(p + 1) \subseteq cur[t] /\ Departure(p) \subseteq cur[t]
        BY <1>7, <4>1 DEF Owns
      <4>3. p + 1 \in 0..End
        BY <1>1, <4>1, <4>2
      <4> QED
        BY <1>4, <1>8, <1>14, <4>2, <4>3
    <3> QED
      BY <2>2, <3>1, <3>3, <3>4 DEF Owns, Departure, HeadEvent, TailEvent
  <2> QED
    BY <2>1, <2>2
<1>21. \A u \in Thread \ {t} : Locals(u)'
  <2>1. \A u \in Thread \ {t}, m \in Node : Holds(u, m) => hist'[NextOf(m)] = hist[NextOf(m)]
    BY <1>2, <1>4, <1>6
  <2> QED
    BY <1>12, <2>1, OthersRead
<1> QED
  BY <1>2, <1>4, <1>5, <1>6, <1>8, <1>10, <1>12, <1>13, <1>16, <1>18, <1>19, <1>20, <1>21

(* The next of the new node is null again, with its count.                 *)
LEMMA StoreOwnNextStep ==
  ASSUME MSInv, NEW t \in Thread, Enqueue_StoreOwnNext(t)
  PROVE  MSInv' /\ Moves
<1>1. pc[t] = "initNext" /\ MoveTo(t, "loadTail") /\ Set(t, "tmp", null)
      /\ UNCHANGED <<free_lists, enqueues, dequeues, out>>
  BY DEF Enqueue_StoreOwnNext, Goto, MoveTo
<1>2. PICK n \in Node : n = loc[t].node /\ Holds(t, n)
  BY <1>1 DEF MSInv, Apart, MakingLabel, Holds
<1>3. PICK x : x = NextOf(n) /\ x \in MSLoc
  BY QueueLocations
<1>4. PICK e \in Nat : e = End
  BY Positions
<1>5. PICK c \in Nat : c = Uses(n, e + 1)
  BY UsesStep DEF UsesLaw
<1>6. ~InList(n) /\ \A u \in Thread \ {t} : ~Holds(u, n)
  BY <1>2 DEF MSInv, Apart
<1>7. ~Ready(n)
  BY <1>1, <1>6 DEF Ready, Holds, ReadyLabel, MakingLabel
<1>8. n # NodeAt(e)
  <2>1. HeadPos \in Nat /\ End \in Nat /\ HeadPos <= End
    BY Positions
  <2> QED
    BY <1>4, <1>6, <2>1 DEF InList
<1>9. Base(n) \in {1, 2} /\ Newest(x) \in Nat /\ Newest(x) >= 1 /\ Newest(x) = Base(n) - 1 + 2 * c
  <2>1. Newest(x) = NextLength(n)
    BY <1>3 DEF MSInv, Nexts
  <2>2. NextLength(n) = Base(n) - 1 + 2 * c + 0 - 0
    BY <1>4, <1>5, <1>7, <1>8 DEF NextLength
  <2>3. Newest(x) \in Nat /\ Newest(x) >= 1 /\ Base(n) \in {1, 2}
    BY <1>3, QueueLengths, Bases DEF MSInv
  <2> QED
    BY <2>1, <2>2, <2>3
<1>10. loc[t].tmp = Val(x, Newest(x)) /\ Val(x, Newest(x)) \in Pointer
  <2>1. Newest(x) \in 1..Newest(x)
    BY <1>9
  <2> QED
    BY <1>1, <1>2, <1>3, <2>1 DEF MSInv, MSTypes, Reading, Locals
<1>11. Val(x, Newest(x)).count = c
  <2>1. CASE c = 0
    <3>1. n # Dummy /\ Newest(x) = 1
      BY <1>9, <2>1, Bases
    <3>2. Val(x, 1) = [ptr |-> POISON, count |-> 0]
      BY <1>3, <3>1 DEF MSInv, Nexts
    <3> QED
      BY <2>1, <3>1, <3>2
  <2>2. CASE c # 0
    <3>1. PICK d \in Nat : c = d + 1
      BY <2>2
    <3>2. LinkIndex(n, d) = Newest(x) /\ d \in 0..Newest(x)
      <4>1. LinkIndex(n, d) = Base(n) + 2 * d + 1
        BY Bases
      <4> QED
        BY <1>9, <3>1, <4>1
    <3>3. Val(NextOf(n), LinkIndex(n, d)).count = d + 1
      BY <1>3, <1>9, <3>2 DEF MSInv, Nexts
    <3> QED
      BY <1>3, <3>1, <3>2, <3>3
  <2> QED
    BY <2>1, <2>2
<1>12. PICK v \in Pointer : v = [ptr |-> null, count |-> c] /\ v = [loc[t].tmp EXCEPT !.ptr = null]
  <2>1. PICK p \in Pointer : p = loc[t].tmp /\ p.count = c
    BY <1>10, <1>11
  <2>2. [p EXCEPT !.ptr = null] = [ptr |-> null, count |-> c] /\ c \in 0..(CountRange - 1)
    BY <2>1 DEF Pointer
  <2>3. [ptr |-> null, count |-> c] \in Pointer
    BY <2>2 DEF Pointer
  <2> QED
    BY <2>1, <2>2, <2>3
<1>13. Store(t, x, v, release)
  BY <1>2, <1>3, <1>12 DEF Enqueue_StoreOwnNext, OrderInitNext
<1>14. Written(t, x, v, cur[t], "store")
  <2>1. <<x, Newest(x)>> \in cur[t]
    BY <1>2, <1>3 DEF MSInv, Owned, Owns
  <2>2. Released(t, release) = cur[t] /\ v \in Content
    BY DEF Released, Releasing, Content
  <2> QED
    BY <1>3, <1>13, <2>1, <2>2, Storing
<1>15. /\ loc' \in [Thread -> Local] /\ \A u \in Thread \ {t} : loc'[u] = loc[u]
       /\ loc'[t].node = n
  BY <1>1, <1>2, SetLocal
<1>16. /\ pc' \in [Thread -> QueueLabel] /\ pc'[t] = "loadTail"
       /\ \A u \in Thread \ {t} : pc'[u] = pc[u]
  <2>1. pc \in [Thread -> QueueLabel] /\ pc' = [pc EXCEPT ![t] = "loadTail"]
    BY <1>1 DEF MSInv, MSTypes, MoveTo
  <2> QED
    BY <2>1 DEF QueueLabel, EnqueueLabel, MakingLabel
<1>17. Others(t)
  BY <1>14, <1>15, <1>16 DEF Others, Written
<1>18. enqueues \in Nat /\ enqueues' = enqueues
  BY <1>1, Bounded
<1>19. /\ x \in MSLoc \ {HeadPtr, TailPtr} /\ Newest(x)' = Newest(x) + 1
       /\ \A y \in MSLoc \ {x} : hist'[y] = hist[y] /\ Newest(y)' = Newest(y)
       /\ \A i \in 1..Newest(x) : hist'[x][i] = hist[x][i]
       /\ hist'[x][Newest(x) + 1].val = v
       /\ HeadPos' = HeadPos /\ TailPos' = TailPos /\ End' = End /\ Grows
       /\ \A m : InList(m)' = InList(m)
       /\ MemType(MSLoc, Content)' /\ rel' = rel /\ (\A y \in MSLoc : Linear(y)') /\ Causal'
       /\ End' + Cardinality(Makers') = enqueues' => Ends'
       /\ Published' /\ Closures'
       /\ \A u \in Thread, m \in Node : Holds(u, m) => Owns(u, m)'
       /\ \A u \in Thread \ {t} : Locals(u)'
  <2>1. pc[t] # "helpNext" /\ enqueues' \in Nat /\ enqueues <= enqueues'
    BY <1>1, <1>18
  <2>2. PICK w : w = cur[t]
    OBVIOUS
  <2>3. Written(t, x, v, w, "store")
    BY <1>14, <2>2 DEF Written
  <2>4. (x = NextOf(n) /\ w = cur[t]) \/ (x = Value(n) /\ w = {})
    BY <1>3, <2>2
  <2> QED
    BY <1>2, <1>17, <2>1, <2>3, <2>4, FieldStep
<1>20. /\ \A m \in Node : NextOf(m) \in MSLoc /\ Value(m) \in MSLoc /\ Value(m) # x
       /\ \A m \in Node : m # n => NextOf(m) # x
  BY <1>3, QueueLocations
(* Who holds what.                                                         *)
<1>21. "initNext" \in MakingLabel /\ "loadTail" \in MakingLabel
       /\ "initNext" \notin ReadyLabel /\ "loadTail" \in ReadyLabel
       /\ MakingLabel \subseteq EnqueueLabel
  BY DEF MakingLabel, ReadyLabel, EnqueueLabel
<1>22. /\ \A u \in Thread : pc'[u] \in MakingLabel <=> pc[u] \in MakingLabel
       /\ \A u \in Thread : loc'[u].node = loc[u].node
       /\ \A u \in Thread : pc'[u] \in EnqueueLabel <=> pc[u] \in EnqueueLabel
  BY <1>1, <1>2, <1>15, <1>16, <1>21
<1>23. /\ \A u \in Thread, m \in Node : Holds(u, m)' <=> Holds(u, m)
       /\ \A m : Making(m)' <=> Making(m)
       /\ Makers' = Makers
  BY <1>1, <1>22 DEF Holds, Making, Makers
<1>24. Ready(n)' /\ \A m : m # n => (Ready(m)' <=> Ready(m))
  <2>1. Ready(n)'
    BY <1>15, <1>16, <1>21 DEF Ready
  <2>2. ASSUME NEW m, m # n
        PROVE  Ready(m)' <=> Ready(m)
    BY <1>2, <1>15, <1>16, <2>2 DEF Ready
  <2> QED
    BY <2>1, <2>2
<1>25. \A k \in 0..e :
         /\ NodeAt(k)' = NodeAt(k) /\ LinkAt(k)' = LinkAt(k) /\ ItemAt(k)' = ItemAt(k)
         /\ \A m : Uses(m, k + 1)' = Uses(m, k + 1)
  BY <1>4, <1>19, Stable
<1>26. e \in 0..e /\ End' = e
  BY <1>4, <1>19
<1>27. Ends'
  <2>1. End + Cardinality(Makers) = enqueues
    BY DEF MSInv, Ends
  <2> QED
    BY <1>18, <1>19, <1>23, <2>1
<1>28. Nexts'
  <2>1. ASSUME NEW m \in Node
        PROVE  Newest(NextOf(m))' = NextLength(m)'
    <3>1. /\ NextLength(m) = Base(m) - 1 + 2 * Uses(m, e + 1) + (IF Ready(m) THEN 1 ELSE 0)
                               - (IF m = NodeAt(e) THEN 1 ELSE 0)
          /\ NextLength(m)' = Base(m) - 1 + 2 * Uses(m, e + 1)' + (IF Ready(m)' THEN 1 ELSE 0)
                                - (IF m = NodeAt(e)' THEN 1 ELSE 0)
      BY <1>4, <1>26 DEF NextLength
    <3>2. Uses(m, e + 1)' = Uses(m, e + 1) /\ NodeAt(e)' = NodeAt(e)
      BY <1>25, <1>26
    <3>3. CASE m = n
      <4>1. Newest(NextOf(m))' = Newest(x) + 1
        BY <1>3, <1>19, <3>3
      <4>2. NextLength(m)' = Base(n) - 1 + 2 * c + 1 - 0
        BY <1>5, <1>8, <1>24, <3>1, <3>2, <3>3
      <4> QED
        BY <1>9, <4>1, <4>2
    <3>4. CASE m # n
      <4>1. Newest(NextOf(m))' = Newest(NextOf(m))
        BY <1>19, <1>20, <3>4
      <4>2. Newest(NextOf(m)) = NextLength(m)
        BY DEF MSInv, Nexts
      <4> QED
        BY <1>24, <3>1, <3>2, <3>4, <4>1, <4>2
    <3> QED
      BY <3>3, <3>4
  <2>2. ASSUME NEW m \in Node
        PROVE  /\ m # Dummy => Val(NextOf(m), 1)' = [ptr |-> POISON, count |-> 0]
               /\ \A o \in 0..Newest(NextOf(m))' :
                    /\ NullIndex(m, o) <= Newest(NextOf(m))' =>
                         Val(NextOf(m), NullIndex(m, o))' = [ptr |-> null, count |-> o]
                    /\ LinkIndex(m, o) <= Newest(NextOf(m))' =>
                         /\ hist'[NextOf(m)][LinkIndex(m, o)].kind = "rmw"
                         /\ Val(NextOf(m), LinkIndex(m, o))'.count = o + 1
                         /\ Val(NextOf(m), LinkIndex(m, o))'.ptr \in Node
    <3>0. /\ m # Dummy => Val(NextOf(m), 1) = [ptr |-> POISON, count |-> 0]
          /\ \A o \in 0..Newest(NextOf(m)) :
               /\ NullIndex(m, o) <= Newest(NextOf(m)) =>
                    Val(NextOf(m), NullIndex(m, o)) = [ptr |-> null, count |-> o]
               /\ LinkIndex(m, o) <= Newest(NextOf(m)) =>
                    /\ hist[NextOf(m)][LinkIndex(m, o)].kind = "rmw"
                    /\ Val(NextOf(m), LinkIndex(m, o)).count = o + 1
                    /\ Val(NextOf(m), LinkIndex(m, o)).ptr \in Node
      BY DEF MSInv, Nexts
    <3>1. CASE m # n
      <4>1. hist'[NextOf(m)] = hist[NextOf(m)] /\ Newest(NextOf(m))' = Newest(NextOf(m))
        BY <1>19, <1>20, <3>1
      <4> QED
        BY <3>0, <4>1 DEF Val
    <3>2. CASE m = n
      <4>1. m # Dummy => Val(x, 1)' = [ptr |-> POISON, count |-> 0]
        BY <1>3, <1>9, <1>19, <3>0, <3>2 DEF Val
      <4>2. ASSUME NEW o \in 0..Newest(x)'
            PROVE  /\ NullIndex(m, o) <= Newest(x)' =>
                        hist'[x][NullIndex(m, o)].val = [ptr |-> null, count |-> o]
                   /\ LinkIndex(m, o) <= Newest(x)' =>
                        /\ hist'[x][LinkIndex(m, o)].kind = "rmw"
                        /\ hist'[x][LinkIndex(m, o)].val.count = o + 1
                        /\ hist'[x][LinkIndex(m, o)].val.ptr \in Node
        <5>1. /\ NullIndex(m, o) = Base(n) + 2 * o /\ LinkIndex(m, o) = Base(n) + 2 * o + 1
              /\ o \in Nat
          BY <1>9, <1>19, <3>2, Bases
        <5>2. ASSUME NullIndex(m, o) <= Newest(x)'
              PROVE  hist'[x][NullIndex(m, o)].val = [ptr |-> null, count |-> o]
          <6>1. CASE NullIndex(m, o) = Newest(x) + 1
            <7>1. o = c
              BY <1>9, <5>1, <6>1
            <7> QED
              BY <1>12, <1>19, <6>1, <7>1
          <6>2. CASE NullIndex(m, o) # Newest(x) + 1
            <7>1. NullIndex(m, o) \in 1..Newest(x) /\ o \in 0..Newest(x)
              BY <1>9, <1>19, <5>1, <5>2, <6>2
            <7>2. hist'[x][NullIndex(m, o)] = hist[x][NullIndex(m, o)]
              BY <1>19, <7>1
            <7>3. NullIndex(m, o) <= Newest(x)
              BY <1>9, <7>1
            <7> QED
              BY <1>3, <3>0, <3>2, <7>1, <7>2, <7>3 DEF Val
          <6> QED
            BY <6>1, <6>2
        <5>3. ASSUME LinkIndex(m, o) <= Newest(x)'
              PROVE  /\ hist'[x][LinkIndex(m, o)].kind = "rmw"
                     /\ hist'[x][LinkIndex(m, o)].val.count = o + 1
                     /\ hist'[x][LinkIndex(m, o)].val.ptr \in Node
          <6>1. LinkIndex(m, o) \in 1..Newest(x) /\ o \in 0..Newest(x)
            BY <1>9, <1>19, <5>1, <5>3
          <6>2. hist'[x][LinkIndex(m, o)] = hist[x][LinkIndex(m, o)]
            BY <1>19, <6>1
          <6>3. LinkIndex(m, o) <= Newest(x)
            BY <1>9, <6>1
          <6> QED
            BY <1>3, <3>0, <3>2, <6>1, <6>2, <6>3 DEF Val
        <5> QED
          BY <5>2, <5>3
      <4> QED
        BY <1>3, <3>2, <4>1, <4>2 DEF Val, NullIndex, LinkIndex, Base
    <3> QED
      BY <3>1, <3>2
  <2>3. ASSUME NEW k \in 0..(End' - 1)
        PROVE  Val(NextOf(NodeAt(k)), LinkAt(k))'.ptr = NodeAt(k + 1)'
    <3>1. k \in 0..(End - 1) /\ k \in 0..e /\ k + 1 \in 0..e /\ NodeAt(k) \in Node /\ k < End
          /\ k \in 0..End
      BY <1>4, <1>26, Positions
    <3>2. Val(NextOf(NodeAt(k)), LinkAt(k)).ptr = NodeAt(k + 1)
      BY <3>1 DEF MSInv, Nexts
    <3>3. LinkAt(k) \in 1..Newest(NextOf(NodeAt(k))) /\ NextOf(NodeAt(k)) \in MSLoc
      BY <1>20, <3>1, Fields
    <3>4. hist'[NextOf(NodeAt(k))][LinkAt(k)] = hist[NextOf(NodeAt(k))][LinkAt(k)]
      BY <1>19, <3>3
    <3> QED
      BY <1>25, <3>1, <3>2, <3>4 DEF Val
  <2> QED
    BY <2>1, <2>2, <2>3 DEF Nexts
<1>29. Items'
  <2>1. \A m \in Node : /\ Newest(Value(m))' = Newest(Value(m))
                        /\ \A i : Val(Value(m), i)' = Val(Value(m), i)
    BY <1>19, <1>20 DEF Val
  <2>2. out' = [k \in 1..HeadPos' |-> ItemAt(k)']
    <3>1. \A k \in 1..HeadPos : k \in 0..e
      BY <1>4, Positions
    <3>2. out = [k \in 1..HeadPos |-> ItemAt(k)]
      BY DEF MSInv, Items
    <3> QED
      BY <1>1, <1>19, <1>25, <3>1, <3>2
  <2>3. ASSUME NEW m \in Node
        PROVE  Newest(Value(m))' = ValueLength(m)'
    <3>1. /\ ValueLength(m) = Base(m) - 1 + Uses(m, e + 1) + (IF Making(m) THEN 1 ELSE 0)
          /\ ValueLength(m)' = Base(m) - 1 + Uses(m, e + 1)' + (IF Making(m)' THEN 1 ELSE 0)
      BY <1>4, <1>26 DEF ValueLength
    <3>2. Uses(m, e + 1)' = Uses(m, e + 1)
      BY <1>25, <1>26
    <3>3. Newest(Value(m)) = ValueLength(m)
      BY DEF MSInv, Items
    <3> QED
      BY <1>23, <2>1, <3>1, <3>2, <3>3
  <2>4. \A p \in Node : \A i \in 2..Newest(Value(p))' : Val(Value(p), i)' \in 1..enqueues'
    BY <1>18, <2>1 DEF MSInv, Items
  <2>5. \A p, q \in Node : \A i \in 2..Newest(Value(p))', j \in 2..Newest(Value(q))' :
          Val(Value(p), i)' = Val(Value(q), j)' => p = q /\ i = j
    BY <2>1 DEF MSInv, Items
  <2> QED
    BY <2>2, <2>3, <2>4, <2>5 DEF Items
<1>30. Apart'
  <2>1. \A j, k \in HeadPos'..End' : NodeAt(j)' = NodeAt(k)' => j = k
    <3>1. \A k \in HeadPos'..End' : k \in HeadPos..End /\ NodeAt(k)' = NodeAt(k)
      BY <1>4, <1>19, <1>25, Positions
    <3> QED
      BY <3>1 DEF MSInv, Apart
  <2>2. /\ \A u \in Thread, m \in Node : Holds(u, m)' => ~InList(m)'
        /\ \A u, w \in Thread, m \in Node : Holds(u, m)' /\ Holds(w, m)' => u = w
    BY <1>19, <1>23 DEF MSInv, Apart
  <2> QED
    BY <1>1, <1>22, <2>1, <2>2 DEF MSInv, Apart
<1>31. Owned'
  BY <1>19, <1>23 DEF Owned
<1>32. Reading'
  BY <1>16, <1>19, NoReading DEF Reading
<1>33. MSTypes'
  <2>1. \A m \in Node : \A j \in 1..Newest(Value(m))' : Val(Value(m), j)' \in Nat
    BY <1>19, <1>20 DEF MSInv, MSTypes, Val
  <2>2. ASSUME NEW m \in Node, NEW j \in 1..Newest(NextOf(m))'
        PROVE  hist'[NextOf(m)][j].val \in Pointer
    <3>1. CASE j \in 1..Newest(NextOf(m))
      <4>1. hist'[NextOf(m)][j] = hist[NextOf(m)][j]
        BY <1>19, <1>20, <3>1
      <4> QED
        BY <3>1, <4>1 DEF MSInv, MSTypes, Val
    <3>2. CASE j \notin 1..Newest(NextOf(m))
      <4>1. NextOf(m) = x
        BY <1>19, <1>20, <3>2
      <4>2. j = Newest(x) + 1
        BY <1>9, <1>19, <3>2, <4>1
      <4> QED
        BY <1>19, <4>1, <4>2
    <3> QED
      BY <3>1, <3>2
  <2>3. rel' = [u \in Thread |-> {}]
    BY <1>19 DEF MSInv, MSTypes
  <2>4. \A m \in Node : \A j \in 1..Newest(NextOf(m))' : Val(NextOf(m), j)' \in Pointer
    BY <2>2 DEF Val
  <2> QED
    BY <1>1, <1>15, <1>16, <1>19, <2>1, <2>3, <2>4 DEF MSInv, MSTypes
<1>34. Moves
  BY <1>19 DEF Moves
<1> QED
  BY <1>19, <1>27, <1>28, <1>29, <1>30, <1>31, <1>32, <1>33, <1>34 DEF MSInv

-----------------------------------------------------------------------------
LEMMA SmallestIndex ==
  ASSUME NEW n \in Nat, NEW S, S \subseteq 0..n, S # {}
  PROVE  \E m \in S : \A x \in S : m <= x
<1> DEFINE Below(x) == {y \in S : y <= x}
           F == {Below(x) : x \in S}
           R == StrictSubsetOrdering(S)
<1>1. IsFiniteSet(S)
  <2>1. 0 \in Int /\ n \in Int
    OBVIOUS
  <2>2. IsFiniteSet(0..n)
    BY <2>1, FS_Interval
  <2> QED
    BY <2>2, FS_Subset
<1>2. F \subseteq FiniteSubsetsOf(S) /\ F # {}
  <2>1. \A x \in S : Below(x) \in SUBSET S
    OBVIOUS
  <2>2. \A x \in S : IsFiniteSet(Below(x))
    BY <1>1, <2>1, FS_Subset
  <2> QED
    BY <2>1, <2>2 DEF FiniteSubsetsOf
<1>3. PICK T \in F : \A U \in F : <<U, T>> \notin R
  <2>1. IsWellFoundedOn(R, FiniteSubsetsOf(S))
    BY FS_StrictSubsetOrderingWellFounded
  <2> QED
    BY <1>2, <2>1, WFMin
<1>4. PICK m \in S : T = Below(m)
  BY <1>3
<1>5. ASSUME NEW x \in S, ~(m <= x)
      PROVE  FALSE
  <2>1. x \in Nat /\ m \in Nat /\ S \subseteq Nat
    OBVIOUS
  <2>2. m \in Below(m) /\ m \notin Below(x)
    BY <1>5, <2>1
  <2>3. \A y \in S : y <= x => y <= m
    BY <1>5, <2>1
  <2>4. <<Below(x), Below(m)>> \in R
    BY <2>2, <2>3 DEF StrictSubsetOrdering
  <2> QED
    BY <1>3, <1>4, <2>4
<1> QED
  BY <1>5

(* The first slot holds what it is looked for.                             *)
LEMMA FirstSlotFound ==
  ASSUME NEW t, NEW W
  PROVE  /\ FirstSlot(t, W) # 0 =>
              FirstSlot(t, W) \in 1..MAX_FREELIST /\ free_lists[t][FirstSlot(t, W)] \in W
         /\ FirstSlot(t, W) = 0 => \A i \in 1..MAX_FREELIST : free_lists[t][i] \notin W
<1> DEFINE S == {i \in 1..MAX_FREELIST : free_lists[t][i] \in W}
           s == CHOOSE i \in S : \A j \in S : i <= j
<1>1. FirstSlot(t, W) = IF S = {} THEN 0 ELSE s
  BY DEF FirstSlot
<1>2. CASE S = {}
  BY <1>1, <1>2
<1>3. CASE S # {}
  <2>1. MAX_FREELIST \in Nat /\ S \subseteq 0..MAX_FREELIST
    BY MSQueueAssumption
  <2>2. \E i \in S : \A j \in S : i <= j
    BY <1>3, <2>1, SmallestIndex
  <2>3. s \in S
    BY <2>2
  <2>4. \A i \in S : i \in 1..MAX_FREELIST /\ i # 0 /\ free_lists[t][i] \in W
    BY <2>1
  <2> HIDE DEF S, s
  <2>5. FirstSlot(t, W) = s /\ s \in S
    BY <1>1, <1>3, <2>3
  <2> QED
    BY <2>4, <2>5
<1> QED
  BY <1>2, <1>3

(* A node of the free list is taken, and gets its item.                    *)
LEMMA StoreValueStep ==
  ASSUME MSInv, NEW t \in Thread, Enqueue_StoreValue(t)
  PROVE  MSInv' /\ Moves
<1>1. /\ pc[t] = "idle" /\ MoveTo(t, "loadOwn")
      /\ enqueues < MaxEnqueues /\ enqueues' = enqueues + 1
      /\ dequeues' = dequeues /\ out' = out
  BY DEF Enqueue_StoreValue, Goto, MoveTo
<1>2. PICK i \in 1..MAX_FREELIST, n \in Node :
        /\ n = free_lists[t][i] /\ Set(t, "node", n)
        /\ free_lists' = [free_lists EXCEPT ![t] = [@ EXCEPT ![i] = null]]
  BY FirstSlotFound DEF Enqueue_StoreValue, NewNode
<1>3. PICK x : x = Value(n) /\ x \in MSLoc
  BY QueueLocations
<1>4. Holds(t, n) /\ "idle" \notin MakingLabel /\ "idle" \notin ReadyLabel
      /\ "idle" \notin EnqueueLabel
      /\ "loadOwn" \in MakingLabel /\ "loadOwn" \notin ReadyLabel /\ "loadOwn" \in EnqueueLabel
  BY <1>2 DEF Holds, MakingLabel, ReadyLabel, EnqueueLabel
<1>5. PICK e \in Nat : e = End
  BY Positions
<1>6. PICK c \in Nat : c = enqueues + 1 /\ c <= MaxEnqueues /\ enqueues \in Nat
  BY <1>1, Bounded, MSQueueAssumption
<1>7. ~InList(n) /\ \A u \in Thread \ {t} : ~Holds(u, n)
  BY <1>4 DEF MSInv, Apart
<1>8. /\ loc' \in [Thread -> Local] /\ \A u \in Thread \ {t} : loc'[u] = loc[u]
      /\ loc'[t].node = n
  BY <1>2, SetLocal
<1>9. /\ pc' \in [Thread -> QueueLabel] /\ pc'[t] = "loadOwn"
      /\ \A u \in Thread \ {t} : pc'[u] = pc[u]
  <2>1. pc \in [Thread -> QueueLabel] /\ pc' = [pc EXCEPT ![t] = "loadOwn"]
    BY <1>1 DEF MSInv, MSTypes, MoveTo
  <2> QED
    BY <2>1 DEF QueueLabel, EnqueueLabel, MakingLabel
<1>10. Store(t, x, c, relaxed)
  BY <1>1, <1>3, <1>6, <1>8 DEF Enqueue_StoreValue
<1>11. Written(t, x, c, {}, "store")
  <2>1. <<x, Newest(x)>> \in cur[t]
    BY <1>3, <1>4 DEF MSInv, Owned, Owns
  <2>2. Released(t, relaxed) = {} /\ c \in Content
    BY DEF Released, Releasing, Content, MSInv, MSTypes, relaxed, release, acq_rel, seq_cst
  <2> QED
    BY <1>3, <1>10, <2>1, <2>2, Storing
<1>12. Others(t)
  BY <1>8, <1>9, <1>11 DEF Others, Written
<1>13. /\ x \in MSLoc \ {HeadPtr, TailPtr} /\ Newest(x)' = Newest(x) + 1
       /\ Newest(x) \in Nat /\ Newest(x) >= 1
       /\ \A y \in MSLoc \ {x} : hist'[y] = hist[y] /\ Newest(y)' = Newest(y)
       /\ \A j \in 1..Newest(x) : hist'[x][j] = hist[x][j]
       /\ hist'[x][Newest(x) + 1].val = c
       /\ HeadPos' = HeadPos /\ TailPos' = TailPos /\ End' = End /\ Grows
       /\ \A m : InList(m)' = InList(m)
       /\ MemType(MSLoc, Content)' /\ rel' = rel /\ (\A y \in MSLoc : Linear(y)') /\ Causal'
       /\ End' + Cardinality(Makers') = enqueues' => Ends'
       /\ Published' /\ Closures'
       /\ \A u \in Thread, m \in Node : Holds(u, m) => Owns(u, m)'
       /\ \A u \in Thread \ {t} : Locals(u)'
  <2>1. pc[t] # "helpNext" /\ enqueues' \in Nat /\ enqueues <= enqueues'
    BY <1>1, <1>6
  <2>2. PICK w : w = {}
    OBVIOUS
  <2>3. Written(t, x, c, w, "store")
    BY <1>11, <2>2 DEF Written
  <2>4. (x = NextOf(n) /\ w = cur[t]) \/ (x = Value(n) /\ w = {})
    BY <1>3, <2>2
  <2> QED
    BY <1>4, <1>12, <2>1, <2>3, <2>4, FieldStep
<1>14. /\ \A m \in Node : NextOf(m) \in MSLoc \ {x} /\ Value(m) \in MSLoc
       /\ \A m \in Node : m # n => Value(m) # x
  BY <1>3, QueueLocations
(* Who holds what.                                                         *)
<1>15. /\ free_lists \in [Thread -> [1..MAX_FREELIST -> Node \cup {null}]]
       /\ free_lists' \in [Thread -> [1..MAX_FREELIST -> Node \cup {null}]]
       /\ \A u \in Thread \ {t} : free_lists'[u] = free_lists[u]
       /\ free_lists'[t][i] = null
       /\ \A j \in 1..MAX_FREELIST : j # i => free_lists'[t][j] = free_lists[t][j]
  <2>1. free_lists \in [Thread -> [1..MAX_FREELIST -> Node \cup {null}]]
    BY DEF MSInv, MSTypes
  <2>2. PICK g : g = [free_lists[t] EXCEPT ![i] = null]
    OBVIOUS
  <2>3. free_lists' = [free_lists EXCEPT ![t] = g]
    BY <1>2, <2>1, <2>2
  <2>4. /\ g \in [1..MAX_FREELIST -> Node \cup {null}] /\ g[i] = null
        /\ \A j \in 1..MAX_FREELIST : j # i => g[j] = free_lists[t][j]
    BY <2>1, <2>2
  <2> QED
    BY <2>1, <2>3, <2>4
<1>16. \A j \in 1..MAX_FREELIST : free_lists'[t][j] # n
  <2>1. null # n
    BY IndexAssumption
  <2>2. \A j \in 1..MAX_FREELIST : free_lists[t][j] = free_lists[t][i] => j = i
    BY <1>2, <2>1 DEF MSInv, Apart
  <2> QED
    BY <1>2, <1>15, <2>1, <2>2
<1>17. \A u \in Thread, m \in Node : Holds(u, m)' => Holds(u, m)
  <2>1. ASSUME NEW u \in Thread, NEW m \in Node, Holds(u, m)'
        PROVE  Holds(u, m)
    <3>1. CASE u = t
      <4>1. CASE m = n
        BY <1>4, <3>1, <4>1
      <4>2. CASE m # n
        <5>1. PICK j \in 1..MAX_FREELIST : free_lists'[t][j] = m
          BY <1>8, <2>1, <3>1, <4>2 DEF Holds
        <5>2. j # i
          BY <1>15, <5>1, IndexAssumption
        <5> QED
          BY <1>15, <3>1, <5>1, <5>2 DEF Holds
      <4> QED
        BY <4>1, <4>2
    <3>2. CASE u # t
      BY <1>8, <1>9, <1>15, <2>1, <3>2 DEF Holds
    <3> QED
      BY <3>1, <3>2
  <2> QED
    BY <2>1
<1>18. /\ ~Making(n) /\ Making(n)' /\ \A m : m # n => (Making(m)' <=> Making(m))
       /\ \A m : Ready(m)' <=> Ready(m)
  <2>1. ~Making(n)
    BY <1>1, <1>4, <1>7 DEF Making, Holds
  <2>2. Making(n)'
    BY <1>4, <1>8, <1>9 DEF Making
  <2>3. ASSUME NEW m, m # n
        PROVE  Making(m)' <=> Making(m)
    BY <1>1, <1>4, <1>8, <1>9, <2>3 DEF Making
  <2>4. ASSUME NEW m
        PROVE  Ready(m)' <=> Ready(m)
    BY <1>1, <1>4, <1>8, <1>9 DEF Ready
  <2> QED
    BY <2>1, <2>2, <2>3, <2>4
<1>19. Cardinality(Makers') = Cardinality(Makers) + 1 /\ Cardinality(Makers) \in Nat
  <2>1. Makers' = Makers \cup {t} /\ t \notin Makers
    BY <1>1, <1>4, <1>9 DEF Makers
  <2>2. IsFiniteSet(Makers)
    <3>1. Makers \in SUBSET Thread
      BY DEF Makers
    <3> QED
      BY <3>1, MSQueueAssumption, FS_Subset
  <2>3. Cardinality(Makers \cup {t}) = Cardinality(Makers) + 1
    BY <2>1, <2>2, FS_AddElement
  <2> QED
    BY <2>1, <2>2, <2>3, FS_CardinalityType
<1>20. \A k \in 0..e :
         /\ NodeAt(k)' = NodeAt(k) /\ LinkAt(k)' = LinkAt(k) /\ ItemAt(k)' = ItemAt(k)
         /\ \A m : Uses(m, k + 1)' = Uses(m, k + 1)
  BY <1>5, <1>13, Stable
<1>21. e \in 0..e /\ End' = e
  BY <1>5, <1>13
<1>22. Ends'
  <2>1. End + Cardinality(Makers) = enqueues
    BY DEF MSInv, Ends
  <2>2. End' + Cardinality(Makers') = enqueues'
    BY <1>1, <1>5, <1>13, <1>19, <2>1
  <2> QED
    BY <1>13, <2>2
<1>23. Nexts'
  <2>1. ASSUME NEW m \in Node
        PROVE  Newest(NextOf(m))' = NextLength(m)'
    <3>1. /\ NextLength(m) = Base(m) - 1 + 2 * Uses(m, e + 1) + (IF Ready(m) THEN 1 ELSE 0)
                               - (IF m = NodeAt(e) THEN 1 ELSE 0)
          /\ NextLength(m)' = Base(m) - 1 + 2 * Uses(m, e + 1)' + (IF Ready(m)' THEN 1 ELSE 0)
                                - (IF m = NodeAt(e)' THEN 1 ELSE 0)
      BY <1>5, <1>21 DEF NextLength
    <3>2. Uses(m, e + 1)' = Uses(m, e + 1) /\ NodeAt(e)' = NodeAt(e)
      BY <1>20, <1>21
    <3>3. Newest(NextOf(m)) = NextLength(m) /\ Newest(NextOf(m))' = Newest(NextOf(m))
      BY <1>13, <1>14 DEF MSInv, Nexts
    <3> QED
      BY <1>18, <3>1, <3>2, <3>3
  <2>2. \A m \in Node : /\ hist'[NextOf(m)] = hist[NextOf(m)]
                        /\ Newest(NextOf(m))' = Newest(NextOf(m))
                        /\ \A j : Val(NextOf(m), j)' = Val(NextOf(m), j)
    BY <1>13, <1>14 DEF Val
  <2>3. ASSUME NEW m \in Node
        PROVE  /\ m # Dummy => Val(NextOf(m), 1)' = [ptr |-> POISON, count |-> 0]
               /\ \A o \in 0..Newest(NextOf(m))' :
                    /\ NullIndex(m, o) <= Newest(NextOf(m))' =>
                         Val(NextOf(m), NullIndex(m, o))' = [ptr |-> null, count |-> o]
                    /\ LinkIndex(m, o) <= Newest(NextOf(m))' =>
                         /\ hist'[NextOf(m)][LinkIndex(m, o)].kind = "rmw"
                         /\ Val(NextOf(m), LinkIndex(m, o))'.count = o + 1
                         /\ Val(NextOf(m), LinkIndex(m, o))'.ptr \in Node
    BY <2>2 DEF MSInv, Nexts
  <2>4. ASSUME NEW k \in 0..(End' - 1)
        PROVE  Val(NextOf(NodeAt(k)), LinkAt(k))'.ptr = NodeAt(k + 1)'
    <3>1. k \in 0..(End - 1) /\ k \in 0..e /\ k + 1 \in 0..e /\ NodeAt(k) \in Node
      BY <1>5, <1>21, Positions
    <3>2. Val(NextOf(NodeAt(k)), LinkAt(k)).ptr = NodeAt(k + 1)
      BY <3>1 DEF MSInv, Nexts
    <3> QED
      BY <1>20, <2>2, <3>1, <3>2
  <2> QED
    BY <2>1, <2>3, <2>4 DEF Nexts
<1>24. \A m \in Node : m # n =>
         /\ Newest(Value(m))' = Newest(Value(m))
         /\ \A j : Val(Value(m), j)' = Val(Value(m), j)
  BY <1>13, <1>14 DEF Val
<1>25. PICK z \in Nat : z = Newest(x) /\ z >= 1
  BY <1>13
<1>26. /\ \A j \in 1..z : Val(Value(n), j)' = Val(Value(n), j)
       /\ Val(Value(n), z + 1)' = c /\ Newest(Value(n))' = z + 1
       /\ \A j \in 1..(z + 1) : j \in 1..z \/ j = z + 1
       /\ \A j \in 2..(z + 1) : j \in 2..z \/ j = z + 1
  <2>1. /\ \A j \in 1..z : Val(Value(n), j)' = Val(Value(n), j)
        /\ Val(Value(n), z + 1)' = c
    BY <1>3, <1>13, <1>25 DEF Val
  <2> QED
    BY <1>3, <1>13, <1>25, <2>1
<1>27. Items'
  <2>1. out' = [k \in 1..HeadPos' |-> ItemAt(k)']
    <3>1. \A k \in 1..HeadPos : k \in 0..e
      BY <1>5, Positions
    <3>2. out = [k \in 1..HeadPos |-> ItemAt(k)]
      BY DEF MSInv, Items
    <3> QED
      BY <1>1, <1>13, <1>20, <3>1, <3>2
  <2>2. ASSUME NEW m \in Node
        PROVE  Newest(Value(m))' = ValueLength(m)'
    <3>1. /\ ValueLength(m) = Base(m) - 1 + Uses(m, e + 1) + (IF Making(m) THEN 1 ELSE 0)
          /\ ValueLength(m)' = Base(m) - 1 + Uses(m, e + 1)' + (IF Making(m)' THEN 1 ELSE 0)
      BY <1>5, <1>21 DEF ValueLength
    <3>2. Uses(m, e + 1)' = Uses(m, e + 1) /\ Uses(m, e + 1) \in Nat /\ Base(m) \in {1, 2}
      BY <1>20, <1>21, UsesStep, Bases DEF UsesLaw
    <3>3. Newest(Value(m)) = ValueLength(m)
      BY DEF MSInv, Items
    <3>4. CASE m = n
      <4>1. Newest(Value(m)) = z
        BY <1>3, <1>25, <3>4
      <4>2. ValueLength(m)' = ValueLength(m) + 1
        BY <1>18, <3>1, <3>2, <3>4
      <4> QED
        BY <1>26, <3>3, <3>4, <4>1, <4>2
    <3>5. CASE m # n
      BY <1>18, <1>24, <3>1, <3>2, <3>3, <3>5
    <3> QED
      BY <3>4, <3>5
  <2>3. ASSUME NEW p \in Node, NEW j \in 2..Newest(Value(p))'
        PROVE  /\ p = n /\ j = z + 1 => Val(Value(p), j)' = c
               /\ ~(p = n /\ j = z + 1) =>
                    /\ j \in 2..Newest(Value(p)) /\ Val(Value(p), j)' = Val(Value(p), j)
                    /\ Val(Value(p), j)' \in 1..enqueues /\ Val(Value(p), j)' # c
    <3>1. CASE p = n /\ j = z + 1
      BY <1>26, <3>1
    <3>2. CASE ~(p = n /\ j = z + 1)
      <4>1. j \in 2..Newest(Value(p)) /\ Val(Value(p), j)' = Val(Value(p), j)
        <5>1. CASE p # n
          BY <1>24, <5>1
        <5>2. CASE p = n
          <6>1. j \in 2..z /\ j \in 1..z
            BY <1>25, <1>26, <3>2, <5>2
          <6> QED
            BY <1>3, <1>25, <1>26, <5>2, <6>1
        <5> QED
          BY <5>1, <5>2
      <4>2. Val(Value(p), j) \in 1..enqueues
        BY <4>1 DEF MSInv, Items
      <4>3. \A w \in 1..enqueues : w # c
        BY <1>6
      <4> QED
        BY <3>2, <4>1, <4>2, <4>3
    <3> QED
      BY <3>1, <3>2
  <2>4. \A p \in Node : \A j \in 2..Newest(Value(p))' : Val(Value(p), j)' \in 1..enqueues'
    <3>1. c \in 1..enqueues' /\ \A w \in 1..enqueues : w \in 1..enqueues'
      BY <1>1, <1>6
    <3> QED
      BY <2>3, <3>1
  <2>5. \A p, q \in Node : \A j \in 2..Newest(Value(p))', k \in 2..Newest(Value(q))' :
          Val(Value(p), j)' = Val(Value(q), k)' => p = q /\ j = k
    <3>1. ASSUME NEW p \in Node, NEW q \in Node, NEW j \in 2..Newest(Value(p))',
                 NEW k \in 2..Newest(Value(q))', Val(Value(p), j)' = Val(Value(q), k)'
          PROVE  p = q /\ j = k
      <4>1. CASE p = n /\ j = z + 1
        BY <2>3, <3>1, <4>1
      <4>2. CASE q = n /\ k = z + 1
        BY <2>3, <3>1, <4>2
      <4>3. CASE ~(p = n /\ j = z + 1) /\ ~(q = n /\ k = z + 1)
        <5>1. /\ j \in 2..Newest(Value(p)) /\ k \in 2..Newest(Value(q))
              /\ Val(Value(p), j) = Val(Value(q), k)
          BY <2>3, <3>1, <4>3
        <5> QED
          BY <5>1 DEF MSInv, Items
      <4> QED
        BY <4>1, <4>2, <4>3
    <3> QED
      BY <3>1
  <2> QED
    BY <2>1, <2>2, <2>4, <2>5 DEF Items
<1>28. Apart'
  <2>1. \A j, k \in HeadPos'..End' : NodeAt(j)' = NodeAt(k)' => j = k
    <3>1. \A k \in HeadPos'..End' : k \in HeadPos..End /\ NodeAt(k)' = NodeAt(k)
      BY <1>5, <1>13, <1>20, Positions
    <3> QED
      BY <3>1 DEF MSInv, Apart
  <2>2. /\ \A u \in Thread, m \in Node : Holds(u, m)' => ~InList(m)'
        /\ \A u, w \in Thread, m \in Node : Holds(u, m)' /\ Holds(w, m)' => u = w
    BY <1>13, <1>17 DEF MSInv, Apart
  <2>3. ASSUME NEW u \in Thread, NEW j \in 1..MAX_FREELIST, NEW k \in 1..MAX_FREELIST,
               free_lists'[u][j] = free_lists'[u][k], free_lists'[u][j] # null
        PROVE  j = k
    <3>1. free_lists'[u][j] = free_lists[u][j] /\ free_lists'[u][k] = free_lists[u][k]
      BY <1>15, <2>3
    <3>2. free_lists[u][j] = free_lists[u][k] /\ free_lists[u][j] # null => j = k
      BY DEF MSInv, Apart
    <3> QED
      BY <2>3, <3>1, <3>2
  <2>4. ASSUME NEW u \in Thread, pc'[u] \in MakingLabel
        PROVE  loc'[u].node \in Node
               /\ \A j \in 1..MAX_FREELIST : free_lists'[u][j] # loc'[u].node
    <3>1. CASE u = t
      BY <1>8, <1>16, <3>1
    <3>2. CASE u # t
      BY <1>8, <1>9, <1>15, <2>4, <3>2 DEF MSInv, Apart
    <3> QED
      BY <3>1, <3>2
  <2>5. \A u \in Thread : pc'[u] \notin EnqueueLabel => loc'[u].node = null
    BY <1>4, <1>8, <1>9 DEF MSInv, Apart
  <2> QED
    BY <2>1, <2>2, <2>3, <2>4, <2>5 DEF Apart
<1>29. Owned'
  BY <1>13, <1>17 DEF Owned
<1>30. Reading'
  BY <1>9, <1>13, NoReading DEF Reading
<1>31. MSTypes'
  <2>1. \A m \in Node : \A j \in 1..Newest(NextOf(m))' : Val(NextOf(m), j)' \in Pointer
    BY <1>13, <1>14 DEF MSInv, MSTypes, Val
  <2>2. ASSUME NEW m \in Node, NEW j \in 1..Newest(Value(m))'
        PROVE  Val(Value(m), j)' \in Nat
    <3>1. CASE m # n
      BY <1>24, <3>1 DEF MSInv, MSTypes
    <3>2. CASE m = n
      <4>1. j \in 1..z \/ j = z + 1
        BY <1>26, <3>2
      <4>2. \A k \in 1..z : Val(Value(m), k) \in Nat
        BY <1>3, <1>25, <3>2 DEF MSInv, MSTypes
      <4> QED
        BY <1>26, <3>2, <4>1, <4>2
    <3> QED
      BY <3>1, <3>2
  <2>3. rel' = [u \in Thread |-> {}]
    BY <1>13 DEF MSInv, MSTypes
  <2>4. enqueues' \in 0..MaxEnqueues /\ dequeues' \in 0..MaxDequeues
    BY <1>1, <1>6 DEF MSInv, MSTypes
  <2> QED
    BY <1>8, <1>9, <1>13, <1>15, <2>1, <2>2, <2>3, <2>4 DEF MSTypes
<1>32. Moves
  BY <1>13 DEF Moves
<1> QED
  BY <1>13, <1>22, <1>23, <1>27, <1>28, <1>29, <1>30, <1>31, <1>32 DEF MSInv

-----------------------------------------------------------------------------
(* The fields of a node of the list are those of its last use.             *)
LEMMA LastUse ==
  ASSUME MSInv, NEW k \in HeadPos..End
  PROVE  /\ Uses(NodeAt(k), End + 1) = Uses(NodeAt(k), k) + 1
         /\ ~Making(NodeAt(k)) /\ ~Ready(NodeAt(k)) /\ \A u \in Thread : ~Holds(u, NodeAt(k))
         /\ k < End => Newest(NextOf(NodeAt(k))) = LinkAt(k)
         /\ Newest(Value(NodeAt(k))) = ValueAt(k)
<1>1. /\ HeadPos \in Nat /\ End \in Nat /\ k \in Nat /\ k \in 0..End
      /\ \A j \in 0..End : NodeAt(j) \in Node
  BY Positions
<1>2. PICK m \in Node : m = NodeAt(k)
  BY <1>1
<1>3. InList(m)
  BY <1>2 DEF InList
<1>4. \A u \in Thread : ~Holds(u, m)
  BY <1>3 DEF MSInv, Apart
<1>5. ~Making(m) /\ ~Ready(m)
  BY <1>4 DEF Making, Ready, Holds, MakingLabel, ReadyLabel
<1>6. Uses(m, End + 1) = Uses(m, k + 1)
  <2>1. \A j \in (k + 1)..End : NodeAt(j) # m
    <3>1. \A j \in (k + 1)..End : j \in HeadPos..End /\ j # k
      BY <1>1
    <3> QED
      BY <1>2, <3>1 DEF MSInv, Apart
  <2>2. {j \in 0..((End + 1) - 1) : NodeAt(j) = m} = {j \in 0..((k + 1) - 1) : NodeAt(j) = m}
    BY <1>1, <2>1
  <2> QED
    BY <2>2 DEF Uses
<1>7. Uses(m, k + 1) = Uses(m, k) + 1 /\ Uses(m, k) \in Nat /\ Base(m) \in {1, 2}
  BY <1>1, <1>2, UsesStep, Bases DEF UsesLaw
<1>8. ASSUME k < End
      PROVE  Newest(NextOf(m)) = LinkAt(k)
  <2>1. m # NodeAt(End)
    <3>1. End \in HeadPos..End /\ End # k
      BY <1>1, <1>8
    <3> QED
      BY <1>2, <3>1 DEF MSInv, Apart
  <2>2. Newest(NextOf(m)) = NextLength(m)
    BY DEF MSInv, Nexts
  <2>3. NextLength(m) = Base(m) - 1 + 2 * (Uses(m, k) + 1) + 0 - 0
    BY <1>5, <1>6, <1>7, <2>1 DEF NextLength
  <2>4. LinkAt(k) = Base(m) + 2 * Uses(m, k) + 1
    BY <1>2, Bases DEF LinkAt
  <2> QED
    BY <1>7, <2>2, <2>3, <2>4
<1>9. Newest(Value(m)) = ValueAt(k)
  <2>1. Newest(Value(m)) = ValueLength(m)
    BY DEF MSInv, Items
  <2>2. ValueLength(m) = Base(m) - 1 + (Uses(m, k) + 1) + 0
    BY <1>5, <1>6, <1>7 DEF ValueLength
  <2>3. ValueAt(k) = Base(m) + Uses(m, k)
    BY <1>2 DEF ValueAt
  <2> QED
    BY <1>7, <2>1, <2>2, <2>3
<1> QED
  BY <1>2, <1>4, <1>5, <1>6, <1>7, <1>8, <1>9

(* Only the newest value of head can be exchanged.                         *)
LEMMA UnlinkFacts ==
  ASSUME MSInv, NEW t \in Thread, Dequeue_Unlink(t),
         NEW h \in 0..HeadPos, loc[t].head = Position(h)
  PROVE  /\ h = HeadPos
         /\ ReadModifyWrite(t, HeadPtr, Newest(HeadPtr),
                            Successor(Position(h), loc[t].next.ptr), release)
<1>1. HeadPos \in Nat /\ Newest(HeadPtr) = HeadPos + 1
  BY Positions
<1>2. PICK i \in Extendable(t, HeadPtr, release) :
        /\ Val(HeadPtr, i) = Position(h)
        /\ ReadModifyWrite(t, HeadPtr, i, Successor(Position(h), loc[t].next.ptr), release)
  BY DEF Dequeue_Unlink, CompareExchange, OrderUnlink
<1>3. i \in 1..Newest(HeadPtr) /\ (i < Newest(HeadPtr) => hist[HeadPtr][i + 1].kind # "rmw")
  BY DEF Extendable, Readable
<1>4. \A j \in 2..Newest(HeadPtr) : hist[HeadPtr][j].kind = "rmw"
  BY DEF MSInv, Ends
<1>5. i = Newest(HeadPtr)
  BY <1>1, <1>3, <1>4
<1>6. HeadPos \in 0..HeadPos /\ i = HeadPos + 1
  BY <1>1, <1>5
<1>7. Val(HeadPtr, HeadPos + 1) = Position(HeadPos)
  BY <1>6 DEF MSInv, Ends
<1>8. Position(h).count = h /\ Position(HeadPos).count = HeadPos
  BY DEF Position
<1> QED
  BY <1>2, <1>5, <1>6, <1>7, <1>8

(* Head moves to the next node, and t keeps the one it leaves.             *)
LEMMA UnlinkStep ==
  ASSUME MSInv, CountsFit, NEW t \in Thread, Dequeue_Unlink(t)
  PROVE  MSInv' /\ Moves
<1>1. /\ pc[t] = "unlink" /\ MoveTo(t, "idle") /\ enqueues' = enqueues /\ dequeues' = dequeues
      /\ out' = Append(out, loc[t].val) /\ Reclaim(t, loc[t].head.ptr)
      /\ loc' = [loc EXCEPT ![t] = NoLocals]
  BY DEF Dequeue_Unlink, Goto, MoveTo
<1>2. PICK h \in 0..HeadPos, q \in 0..TailPos : HeadRead(t, h, q)
  BY <1>1 DEF MSInv, Reading, Locals, HeadLabel
<1>3. /\ loc[t].head = Position(h) /\ h < q /\ \A j \in 0..q : TailEvent(j) \in cur[t]
      /\ h < End /\ loc[t].next.ptr = NodeAt(h + 1)
      /\ Knowledge(h) \subseteq cur[t] /\ Knowledge(h + 1) \subseteq cur[t]
      /\ loc[t].val = ItemAt(h + 1) \/ h < HeadPos
  BY <1>1, <1>2 DEF HeadRead
<1>4. /\ HeadPos \in Nat /\ TailPos \in Nat /\ End \in Nat /\ HeadPos <= TailPos /\ TailPos <= End
      /\ Newest(HeadPtr) = HeadPos + 1
      /\ \A k \in 0..End : NodeAt(k) \in Node
      /\ Ptr(TailPtr) = NodeAt(TailPos)
  BY Positions
<1>5. /\ HeadPtr \in MSLoc /\ TailPtr \in MSLoc \ {HeadPtr}
      /\ \A m \in Node : NextOf(m) \in MSLoc \ {HeadPtr} /\ Value(m) \in MSLoc \ {HeadPtr}
  BY QueueLocations
<1>6. ReadModifyWrite(t, HeadPtr, Newest(HeadPtr), Successor(Position(h), NodeAt(h + 1)), release)
  BY <1>3, UnlinkFacts
<1>7. h = HeadPos
  BY <1>3, UnlinkFacts
<1>8. PICK p \in Nat, e \in Nat, z \in Nat :
        p = HeadPos /\ e = End /\ z = TailPos /\ p < e /\ p + 1 <= z /\ z <= e
  BY <1>3, <1>4, <1>7
<1>9. PICK n \in Node, s \in Node : n = NodeAt(p) /\ s = NodeAt(p + 1)
  BY <1>4, <1>8
<1>10. p \in 0..End /\ p + 1 \in 0..End /\ p \in HeadPos..End /\ h = p
       /\ p \in 0..e /\ p + 1 \in 0..e
  BY <1>7, <1>8
<1>11. PICK v \in Pointer : v = Position(p + 1) /\ v = Successor(Position(h), NodeAt(h + 1))
  <2>1. Position(p + 1) = [ptr |-> s, count |-> p + 1] /\ Position(h).count = p
    BY <1>9, <1>10 DEF Position
  <2>2. Position(p + 1) \in Pointer /\ MakePointer(s, p + 1) = [ptr |-> s, count |-> p + 1]
    BY <1>9, <1>10, Counted
  <2> QED
    BY <1>9, <1>10, <2>1, <2>2 DEF Successor
<1>12. Written(t, HeadPtr, v, Joined(t, HeadPtr), "rmw")
  <2>1. v \in Content
    BY DEF Content
  <2> QED
    BY <1>5, <1>6, <1>7, <1>11, <2>1, Exchanging
<1>13. /\ Newest(HeadPtr)' = Newest(HeadPtr) + 1
       /\ \A y \in MSLoc \ {HeadPtr} : hist'[y] = hist[y] /\ Newest(y)' = Newest(y)
       /\ \A j \in 1..Newest(HeadPtr) : hist'[HeadPtr][j] = hist[HeadPtr][j]
       /\ hist'[HeadPtr][Newest(HeadPtr) + 1].val = v
       /\ hist'[HeadPtr][Newest(HeadPtr) + 1].view = Joined(t, HeadPtr)
       /\ hist'[HeadPtr][Newest(HeadPtr) + 1].kind = "rmw"
       /\ \A y \in MSLoc : Linear(y)'
       /\ \A y \in MSLoc : /\ Newest(y) <= Newest(y)' /\ Newest(y)' \in Nat
                           /\ \A j \in 1..Newest(y) : hist'[y][j] = hist[y][j]
       /\ \A u \in Thread : cur[u] \subseteq cur'[u]
       /\ \A u \in Thread \ {t} : cur'[u] = cur[u]
       /\ NextEvent(HeadPtr) = <<HeadPtr, Newest(HeadPtr) + 1>> /\ NextEvent(HeadPtr) \in cur'[t]
       /\ Upto(HeadPtr, Newest(HeadPtr)) = {<<HeadPtr, j>> : j \in 1..Newest(HeadPtr)}
       /\ Causal' /\ MemType(MSLoc, Content)' /\ rel' = rel
  BY <1>5, <1>12, WriteMemory DEF Written
<1>14. HeadPos' = p + 1 /\ TailPos' = TailPos
  BY <1>4, <1>5, <1>8, <1>13 DEF HeadPos, TailPos
<1>15. AfterTail' = AfterTail
  <2>1. PICK m \in Node : m = NodeAt(TailPos)
    BY <1>4
  <2>2. Ptr(TailPtr)' = m /\ Ptr(TailPtr) = m
    BY <1>4, <1>5, <1>13, <2>1 DEF Ptr, Val
  <2>3. Ptr(NextOf(m))' = Ptr(NextOf(m))
    BY <1>5, <1>13 DEF Ptr, Val
  <2> QED
    BY <2>2, <2>3 DEF AfterTail
<1>16. End' = e
  BY <1>8, <1>14, <1>15 DEF End
<1>17. \A k : NodeAt(k)' = NodeAt(k)
  BY <1>5, <1>13, <1>14, <1>15 DEF NodeAt, Val
<1>18. Grows
  <2>1. enqueues \in Nat
    BY Bounded
  <2> QED
    BY <1>1, <1>4, <1>8, <1>13, <1>14, <1>16, <1>17, <2>1 DEF Grows
<1>19. \A k \in 0..e :
         /\ LinkAt(k)' = LinkAt(k) /\ LinkEvent(k)' = LinkEvent(k)
         /\ Knowledge(k)' = Knowledge(k) /\ ItemAt(k)' = ItemAt(k) /\ Position(k)' = Position(k)
         /\ \A m : Uses(m, k + 1)' = Uses(m, k + 1)
  BY <1>8, <1>18, Stable
(* Who holds what.                                                         *)
<1>20. /\ "idle" \notin MakingLabel /\ "idle" \notin ReadyLabel /\ "idle" \notin EnqueueLabel
       /\ "unlink" \notin MakingLabel /\ "unlink" \notin ReadyLabel /\ "unlink" \notin EnqueueLabel
  BY DEF MakingLabel, ReadyLabel, EnqueueLabel
<1>21. /\ pc' \in [Thread -> QueueLabel] /\ pc'[t] = "idle"
       /\ \A u \in Thread \ {t} : pc'[u] = pc[u]
  <2>1. pc \in [Thread -> QueueLabel] /\ pc' = [pc EXCEPT ![t] = "idle"]
    BY <1>1 DEF MSInv, MSTypes, MoveTo
  <2> QED
    BY <2>1 DEF QueueLabel
<1>22. /\ loc' \in [Thread -> Local] /\ \A u \in Thread \ {t} : loc'[u] = loc[u]
       /\ loc'[t].node = null
  <2>1. loc \in [Thread -> Local] /\ NoLocals \in Local /\ NoLocals.node = null
    BY DEF MSInv, MSTypes, NoLocals, Local
  <2> QED
    BY <1>1, <2>1
<1>23. Others(t)
  BY <1>13, <1>21, <1>22 DEF Others
<1>24. /\ Uses(n, End + 1) = Uses(n, p) + 1
       /\ \A u \in Thread : ~Holds(u, n)
       /\ Newest(NextOf(n)) = LinkAt(p) /\ Newest(Value(n)) = ValueAt(p)
  BY <1>8, <1>9, <1>10, LastUse
<1>25. /\ free_lists \in [Thread -> [1..MAX_FREELIST -> Node \cup {null}]]
       /\ free_lists' \in [Thread -> [1..MAX_FREELIST -> Node \cup {null}]]
       /\ \A u \in Thread \ {t} : free_lists'[u] = free_lists[u]
       /\ \E k \in Nat : \A j \in 1..MAX_FREELIST :
            /\ j = k => free_lists'[t][j] = n
            /\ j # k => free_lists'[t][j] = free_lists[t][j]
  <2>1. free_lists \in [Thread -> [1..MAX_FREELIST -> Node \cup {null}]]
    BY DEF MSInv, MSTypes
  <2>2. loc[t].head.ptr = n
    BY <1>3, <1>9, <1>10 DEF Position
  <2>3. PICK k : k = FirstSlot(t, {null})
    OBVIOUS
  <2>4. free_lists' = IF k = 0 THEN free_lists
                      ELSE [free_lists EXCEPT ![t] = [free_lists[t] EXCEPT ![k] = n]]
    BY <1>1, <2>1, <2>2, <2>3 DEF Reclaim
  <2>5. CASE k = 0
    <3>1. \A j \in 1..MAX_FREELIST : j # 0
      OBVIOUS
    <3> QED
      BY <2>1, <2>4, <2>5, <3>1
  <2>6. CASE k # 0
    <3>1. k \in 1..MAX_FREELIST
      BY <2>3, <2>6, FirstSlotFound
    <3>2. PICK g : g = [free_lists[t] EXCEPT ![k] = n]
      OBVIOUS
    <3>3. free_lists' = [free_lists EXCEPT ![t] = g]
      BY <2>4, <2>6, <3>2
    <3>4. /\ g \in [1..MAX_FREELIST -> Node \cup {null}] /\ g[k] = n
          /\ \A j \in 1..MAX_FREELIST : j # k => g[j] = free_lists[t][j]
      BY <2>1, <3>1, <3>2
    <3>5. /\ free_lists' \in [Thread -> [1..MAX_FREELIST -> Node \cup {null}]]
          /\ \A u \in Thread \ {t} : free_lists'[u] = free_lists[u]
          /\ free_lists'[t] = g
      BY <2>1, <3>3, <3>4
    <3>6. k \in Nat
      BY <3>1
    <3> QED
      BY <2>1, <3>4, <3>5, <3>6
  <2> QED
    BY <2>5, <2>6
<1>26. PICK k0 \in Nat : \A j \in 1..MAX_FREELIST :
         /\ j = k0 => free_lists'[t][j] = n
         /\ j # k0 => free_lists'[t][j] = free_lists[t][j]
  BY <1>25
<1>27. \A u \in Thread, m \in Node : Holds(u, m)' => Holds(u, m) \/ (u = t /\ m = n)
  <2>1. ASSUME NEW u \in Thread, NEW m \in Node, Holds(u, m)', ~(u = t /\ m = n)
        PROVE  Holds(u, m)
    <3>1. CASE u = t
      <4>1. PICK j \in 1..MAX_FREELIST : free_lists'[t][j] = m
        BY <1>20, <1>21, <2>1, <3>1 DEF Holds
      <4>2. free_lists[t][j] = m
        BY <1>26, <2>1, <3>1, <4>1
      <4> QED
        BY <3>1, <4>2 DEF Holds
    <3>2. CASE u # t
      BY <1>21, <1>22, <1>25, <2>1, <3>2 DEF Holds
    <3> QED
      BY <3>1, <3>2
  <2> QED
    BY <2>1
<1>28. /\ \A m : Making(m)' <=> Making(m)
       /\ \A m : Ready(m)' <=> Ready(m)
       /\ Makers' = Makers
  BY <1>1, <1>20, <1>21, <1>22 DEF Making, Ready, Makers
<1>29. \A m : InList(m)' => InList(m) /\ m # n
  <2>1. ASSUME NEW m, InList(m)'
        PROVE  InList(m) /\ m # n
    <3>1. PICK k \in (p + 1)..e : NodeAt(k) = m
      BY <1>14, <1>16, <1>17, <2>1 DEF InList
    <3>2. k \in HeadPos..End /\ k # p
      BY <1>8, <3>1
    <3>3. NodeAt(k) # NodeAt(p)
      BY <1>10, <3>2 DEF MSInv, Apart
    <3> QED
      BY <1>9, <3>1, <3>2, <3>3 DEF InList
  <2> QED
    BY <2>1
<1>30. /\ NodeAt(0)' = Dummy
       /\ \A k \in 0..End : NodeAt(k)' \in Node
       /\ \A k \in 0..TailPos : Val(TailPtr, k + 1)' = Position(k)'
       /\ \A k \in 0..HeadPos : Val(HeadPtr, k + 1)' = Position(k)'
       /\ \A j \in 2..Newest(HeadPtr) : hist'[HeadPtr][j].kind = "rmw"
       /\ \A j \in 2..Newest(TailPtr) : hist'[TailPtr][j].kind = "rmw"
       /\ \A k \in 1..TailPos : Knowledge(k)' \subseteq hist'[TailPtr][k + 1].view
       /\ \A k \in 1..HeadPos :
            Knowledge(k)' \cup {TailEvent(k)} \subseteq hist'[HeadPtr][k + 1].view
       /\ \A k \in 0..(End - 1) : \A j \in LinkAt(k)..Newest(NextOf(NodeAt(k))) :
            LET view == hist'[NextOf(NodeAt(k))][j].view
            IN  /\ Knowledge(k + 1)' \subseteq view \cup {LinkEvent(k)}
                /\ j > LinkAt(k) => Departure(k) \subseteq view
  BY <1>18, PointersStay
<1>31. Ends'
  <2>1. ASSUME NEW k \in 0..HeadPos'
        PROVE  Val(HeadPtr, k + 1)' = Position(k)'
    <3>1. CASE k \in 0..HeadPos
      BY <1>30, <3>1
    <3>2. CASE k \notin 0..HeadPos
      <4>1. k = p + 1 /\ k + 1 = Newest(HeadPtr) + 1
        BY <1>4, <1>8, <1>14, <3>2
      <4>2. Val(HeadPtr, k + 1)' = v
        BY <1>13, <4>1 DEF Val
      <4>3. Position(k)' = v
        BY <1>10, <1>11, <1>19, <4>1
      <4> QED
        BY <4>2, <4>3
    <3> QED
      BY <3>1, <3>2
  <2>2. \A j \in 2..Newest(HeadPtr)' : hist'[HeadPtr][j].kind = "rmw"
    <3>1. \A j \in 2..Newest(HeadPtr)' : j \in 2..Newest(HeadPtr) \/ j = Newest(HeadPtr) + 1
      BY <1>4, <1>13
    <3> QED
      BY <1>13, <1>30, <3>1
  <2>3. \A j \in 2..Newest(TailPtr)' : hist'[TailPtr][j].kind = "rmw"
    BY <1>5, <1>13, <1>30
  <2>4. HeadPos' \in 0..TailPos'
    BY <1>8, <1>14
  <2>5. \A k \in 0..End' : NodeAt(k)' \in Node
    BY <1>8, <1>16, <1>30
  <2>6. \A k \in 0..TailPos' : Val(TailPtr, k + 1)' = Position(k)'
    BY <1>14, <1>30
  <2>7. End' + Cardinality(Makers') = enqueues'
    BY <1>1, <1>8, <1>16, <1>28 DEF MSInv, Ends
  <2> QED
    BY <1>30, <2>1, <2>2, <2>3, <2>4, <2>5, <2>6, <2>7 DEF Ends
<1>32. \A m \in Node : /\ hist'[NextOf(m)] = hist[NextOf(m)]
                       /\ hist'[Value(m)] = hist[Value(m)]
                       /\ Newest(NextOf(m))' = Newest(NextOf(m))
                       /\ Newest(Value(m))' = Newest(Value(m))
                       /\ \A j : /\ Val(NextOf(m), j)' = Val(NextOf(m), j)
                                 /\ Val(Value(m), j)' = Val(Value(m), j)
  BY <1>5, <1>13 DEF Val
<1>33. \A m \in Node : NextLength(m)' = NextLength(m) /\ ValueLength(m)' = ValueLength(m)
  <2>1. ASSUME NEW m \in Node
        PROVE  NextLength(m)' = NextLength(m) /\ ValueLength(m)' = ValueLength(m)
    <3>1. e \in 0..e
      OBVIOUS
    <3>2. /\ NextLength(m) = Base(m) - 1 + 2 * Uses(m, e + 1) + (IF Ready(m) THEN 1 ELSE 0)
                               - (IF m = NodeAt(e) THEN 1 ELSE 0)
          /\ NextLength(m)' = Base(m) - 1 + 2 * Uses(m, e + 1)' + (IF Ready(m)' THEN 1 ELSE 0)
                                - (IF m = NodeAt(e)' THEN 1 ELSE 0)
      BY <1>8, <1>16 DEF NextLength
    <3>3. /\ ValueLength(m) = Base(m) - 1 + Uses(m, e + 1) + (IF Making(m) THEN 1 ELSE 0)
          /\ ValueLength(m)' = Base(m) - 1 + Uses(m, e + 1)' + (IF Making(m)' THEN 1 ELSE 0)
      BY <1>8, <1>16 DEF ValueLength
    <3> QED
      BY <1>17, <1>19, <1>28, <3>1, <3>2, <3>3
  <2> QED
    BY <2>1
<1>34. Nexts'
  <2>1. \A m \in Node : Newest(NextOf(m))' = NextLength(m)'
    BY <1>32, <1>33 DEF MSInv, Nexts
  <2>2. ASSUME NEW m \in Node
        PROVE  /\ m # Dummy => Val(NextOf(m), 1)' = [ptr |-> POISON, count |-> 0]
               /\ \A o \in 0..Newest(NextOf(m))' :
                    /\ NullIndex(m, o) <= Newest(NextOf(m))' =>
                         Val(NextOf(m), NullIndex(m, o))' = [ptr |-> null, count |-> o]
                    /\ LinkIndex(m, o) <= Newest(NextOf(m))' =>
                         /\ hist'[NextOf(m)][LinkIndex(m, o)].kind = "rmw"
                         /\ Val(NextOf(m), LinkIndex(m, o))'.count = o + 1
                         /\ Val(NextOf(m), LinkIndex(m, o))'.ptr \in Node
    BY <1>32 DEF MSInv, Nexts
  <2>3. ASSUME NEW k \in 0..(End' - 1)
        PROVE  Val(NextOf(NodeAt(k)), LinkAt(k))'.ptr = NodeAt(k + 1)'
    <3>1. k \in 0..(End - 1) /\ k \in 0..e /\ NodeAt(k) \in Node
      BY <1>4, <1>8, <1>16
    <3>2. Val(NextOf(NodeAt(k)), LinkAt(k)).ptr = NodeAt(k + 1)
      BY <3>1 DEF MSInv, Nexts
    <3> QED
      BY <1>17, <1>19, <1>32, <3>1, <3>2
  <2> QED
    BY <2>1, <2>2, <2>3 DEF Nexts
<1>35. Items'
  <2>1. out' = [k \in 1..HeadPos' |-> ItemAt(k)']
    <3>1. PICK w : w = loc[t].val /\ w = ItemAt(p + 1)
      BY <1>3, <1>4, <1>7, <1>8
    <3>2. out = [k \in 1..p |-> ItemAt(k)] /\ out' = Append(out, w)
      BY <1>1, <1>8, <3>1 DEF MSInv, Items
    <3>3. out' = [k \in 1..(p + 1) |-> IF k = p + 1 THEN w ELSE ItemAt(k)]
      <4>1. PICK f : f = [k \in 1..p |-> ItemAt(k)]
        OBVIOUS
      <4>2. Len(f) = p /\ \A k \in 1..p : f[k] = ItemAt(k)
        BY <4>1
      <4>3. PICK S : S = {ItemAt(k) : k \in 1..p} \cup {w}
        OBVIOUS
      <4>4. f \in Seq(S) /\ w \in S
        BY <1>8, <4>1, <4>3
      <4>5. /\ Append(f, w) \in Seq(S) /\ Len(Append(f, w)) = p + 1
            /\ \A k \in 1..p : Append(f, w)[k] = ItemAt(k)
            /\ Append(f, w)[p + 1] = w
        BY <4>2, <4>4, AppendProperties
      <4>6. PICK g : g = Append(f, w)
        OBVIOUS
      <4>7. g = [k \in 1..(p + 1) |-> g[k]]
        BY <4>5, <4>6, LenProperties
      <4>8. \A k \in 1..(p + 1) : k = p + 1 \/ k \in 1..p
        BY <1>8
      <4>9. \A k \in 1..(p + 1) : g[k] = IF k = p + 1 THEN w ELSE ItemAt(k)
        BY <4>5, <4>6, <4>8
      <4>10. [k \in 1..(p + 1) |-> g[k]] = [k \in 1..(p + 1) |-> IF k = p + 1 THEN w ELSE ItemAt(k)]
        BY <4>9
      <4> QED
        BY <3>2, <4>1, <4>6, <4>7, <4>10
    <3>4. \A k \in 1..(p + 1) : k \in 0..e
      BY <1>8
    <3>5. \A k \in 1..(p + 1) : (IF k = p + 1 THEN w ELSE ItemAt(k)) = ItemAt(k)'
      BY <1>19, <3>1, <3>4
    <3> QED
      BY <1>14, <3>3, <3>5
  <2>2. \A m \in Node : Newest(Value(m))' = ValueLength(m)'
    BY <1>32, <1>33 DEF MSInv, Items
  <2>3. \A m \in Node : \A j \in 2..Newest(Value(m))' : Val(Value(m), j)' \in 1..enqueues'
    BY <1>1, <1>32 DEF MSInv, Items
  <2>4. \A m, r \in Node : \A j \in 2..Newest(Value(m))', k \in 2..Newest(Value(r))' :
          Val(Value(m), j)' = Val(Value(r), k)' => m = r /\ j = k
    BY <1>32 DEF MSInv, Items
  <2> QED
    BY <2>1, <2>2, <2>3, <2>4 DEF Items

<1>36. Apart'
  <2>1. \A j, k \in HeadPos'..End' : NodeAt(j)' = NodeAt(k)' => j = k
    <3>1. \A k \in HeadPos'..End' : k \in HeadPos..End /\ NodeAt(k)' = NodeAt(k)
      BY <1>8, <1>14, <1>16, <1>17
    <3> QED
      BY <3>1 DEF MSInv, Apart
  <2>2. \A u \in Thread, m \in Node : Holds(u, m)' => ~InList(m)'
    BY <1>27, <1>29 DEF MSInv, Apart
  <2>3. \A u, w \in Thread, m \in Node : Holds(u, m)' /\ Holds(w, m)' => u = w
    BY <1>24, <1>27 DEF MSInv, Apart
  <2>4. ASSUME NEW u \in Thread, NEW j \in 1..MAX_FREELIST, NEW k \in 1..MAX_FREELIST,
               free_lists'[u][j] = free_lists'[u][k], free_lists'[u][j] # null
        PROVE  j = k
    <3>1. free_lists[u][j] = free_lists[u][k] /\ free_lists[u][j] # null => j = k
      BY DEF MSInv, Apart
    <3>2. \A l \in 1..MAX_FREELIST : free_lists[u][l] # n
      BY <1>24 DEF Holds
    <3>3. CASE u = t
      BY <1>26, <2>4, <3>1, <3>2, <3>3
    <3>4. CASE u # t
      BY <1>25, <2>4, <3>1, <3>4
    <3> QED
      BY <3>3, <3>4
  <2>5. ASSUME NEW u \in Thread, pc'[u] \in MakingLabel
        PROVE  loc'[u].node \in Node
               /\ \A j \in 1..MAX_FREELIST : free_lists'[u][j] # loc'[u].node
    <3>1. u # t
      BY <1>20, <1>21, <2>5
    <3> QED
      BY <1>21, <1>22, <1>25, <2>5, <3>1 DEF MSInv, Apart
  <2>6. \A u \in Thread : pc'[u] \notin EnqueueLabel => loc'[u].node = null
    BY <1>21, <1>22 DEF MSInv, Apart
  <2> QED
    BY <2>1, <2>2, <2>3, <2>4, <2>5, <2>6 DEF Apart
(* T knows the fields of the node it keeps, and when it left the list.     *)
<1>37. Owns(t, n)'
  <2>1. <<NextOf(n), Newest(NextOf(n))'>> \in cur'[t]
    <3>1. p + 1 \in 1..(p + 1) /\ p + 1 \in Nat /\ (p + 1) - 1 = p
      BY <1>8
    <3>2. LinkEvent((p + 1) - 1) \in Knowledge(p + 1)
      BY <3>1, KnowledgeParts
    <3>3. LinkEvent(p) \in cur[t]
      BY <1>3, <1>10, <3>1, <3>2
    <3>4. LinkEvent(p) = <<NextOf(n), Newest(NextOf(n))>>
      BY <1>9, <1>24 DEF LinkEvent
    <3> QED
      BY <1>13, <1>32, <3>3, <3>4
  <2>2. <<Value(n), Newest(Value(n))'>> \in cur'[t]
    <3>1. ValueEvent(p) = <<Value(n), Newest(Value(n))>>
      BY <1>9, <1>24 DEF ValueEvent
    <3>2. ValueEvent(p) \in cur[t]
      <4>1. CASE p = 0
        <5>1. n = Dummy
          BY <1>9, <4>1 DEF MSInv, Ends
        <5>2. Uses(n, p) = 0 /\ Base(n) = 1
          BY <4>1, <5>1, UsesStep DEF UsesLaw, Base
        <5>3. ValueAt(p) = 1
          BY <1>9, <5>2 DEF ValueAt
        <5>4. <<Value(n), 1>> \in cur[t]
          BY <1>5 DEF MSInv, Causal
        <5> QED
          BY <1>9, <5>3, <5>4 DEF ValueEvent
      <4>2. CASE p # 0
        <5>1. p \in 1..p
          BY <1>8, <4>2
        <5> QED
          BY <1>3, <1>10, <5>1, KnowledgeParts
      <4> QED
        BY <4>1, <4>2
    <3> QED
      BY <1>13, <1>32, <3>1, <3>2
  <2>3. ASSUME NEW j \in 0..End', NodeAt(j)' = n
        PROVE  j < HeadPos' /\ Knowledge(j + 1)' \subseteq cur'[t] /\ Departure(j) \subseteq cur'[t]
    <3>1. j \in 0..End /\ NodeAt(j) = NodeAt(p)
      BY <1>8, <1>9, <1>16, <1>17, <2>3
    <3>2. j <= p
      <4>1. SUFFICES ASSUME j > p PROVE FALSE
        BY <1>8, <3>1
      <4>2. j \in HeadPos..End /\ j # p
        BY <1>8, <3>1, <4>1
      <4> QED
        BY <1>10, <3>1, <4>2 DEF MSInv, Apart
    <3>3. j + 1 \in 0..e /\ j + 1 \in Nat /\ j + 1 <= p + 1 /\ p + 1 \in Nat
      BY <1>8, <3>1, <3>2
    <3>4. Knowledge(j + 1) \subseteq Knowledge(p + 1)
      BY <3>3, KnowledgeSteps DEF KnowledgeLaw
    <3>5. Knowledge(j + 1)' \subseteq cur'[t]
      BY <1>3, <1>10, <1>13, <1>19, <3>3, <3>4
    <3>6. Departure(j) \subseteq cur'[t]
      <4>1. CASE j = p
        <5>1. HeadEvent(p + 1) \in cur'[t]
          BY <1>4, <1>8, <1>13 DEF HeadEvent
        <5>2. p + 1 \in 0..q
          BY <1>3, <1>4, <1>8, <1>10
        <5>3. TailEvent(p + 1) \in cur'[t]
          BY <1>3, <1>13, <5>2
        <5> QED
          BY <4>1, <5>1, <5>3 DEF Departure
      <4>2. CASE j # p
        <5>1. p \in 1..p /\ j \in 0..(p - 1)
          BY <1>8, <3>1, <3>2, <4>2
        <5>2. Departure(j) \subseteq Knowledge(p)
          BY <1>8, <3>1, <5>1, KnowledgeParts
        <5> QED
          BY <1>3, <1>10, <1>13, <5>2
      <4> QED
        BY <4>1, <4>2
    <3>7. j < HeadPos'
      BY <1>8, <1>14, <3>1, <3>2
    <3> QED
      BY <3>5, <3>6, <3>7
  <2> QED
    BY <2>1, <2>2, <2>3 DEF Owns, Departure, HeadEvent, TailEvent
<1>38. Owned'
  <2>1. ASSUME NEW u \in Thread, NEW m \in Node, Holds(u, m)
        PROVE  Owns(u, m)'
    <3>1. \A k \in 0..End' : k \in 0..End
      BY <1>8, <1>16
    <3> QED
      BY <1>18, <1>32, <2>1, <3>1, OwnersStay
  <2> QED
    BY <1>27, <1>37, <2>1 DEF Owned
<1>39. Published'
  <2>1. ASSUME NEW k \in 1..HeadPos'
        PROVE  Knowledge(k)' \cup {TailEvent(k)} \subseteq hist'[HeadPtr][k + 1].view
    <3>1. CASE k \in 1..HeadPos
      BY <1>30, <3>1
    <3>2. CASE k \notin 1..HeadPos
      <4>1. k = p + 1 /\ k \in 0..e /\ k \in 0..q /\ k + 1 = Newest(HeadPtr) + 1
        BY <1>3, <1>4, <1>8, <1>10, <1>14, <3>2
      <4>2. Knowledge(k)' \subseteq cur[t] /\ TailEvent(k) \in cur[t]
        BY <1>3, <1>10, <1>19, <4>1
      <4>3. cur[t] \subseteq hist'[HeadPtr][k + 1].view
        BY <1>13, <4>1 DEF Joined
      <4> QED
        BY <4>2, <4>3
    <3> QED
      BY <3>1, <3>2
  <2>2. ASSUME NEW k \in 0..(End' - 1), NEW j \in (LinkAt(k)..Newest(NextOf(NodeAt(k))))'
        PROVE  /\ Knowledge(k + 1)' \subseteq (hist[NextOf(NodeAt(k))][j].view \cup {LinkEvent(k)})'
               /\ j > LinkAt(k)' => Departure(k) \subseteq (hist[NextOf(NodeAt(k))][j].view)'
    <3>1. k \in 0..(End - 1) /\ k \in 0..e /\ NodeAt(k) \in Node
      BY <1>4, <1>8, <1>16
    <3>2. NodeAt(k)' = NodeAt(k) /\ LinkAt(k)' = LinkAt(k) /\ LinkEvent(k)' = LinkEvent(k)
      BY <1>17, <1>19, <3>1
    <3>3. j \in LinkAt(k)..Newest(NextOf(NodeAt(k)))
      BY <1>32, <3>1, <3>2
    <3> QED
      BY <1>30, <3>1, <3>2, <3>3
  <2>3. \A k \in 1..TailPos' : Knowledge(k)' \subseteq hist'[TailPtr][k + 1].view
    BY <1>14, <1>30
  <2> QED
    BY <2>1, <2>2, <2>3 DEF Published, Departure, HeadEvent, TailEvent
<1>40. Closures'
  <2>1. Closed(cur[t])
    BY <1>1, ClosedView
  <2>2. Closed(Upto(HeadPtr, Newest(HeadPtr)))
    <3>1. \A k \in 0..(End - 1) : LinkEvent(k) \notin Upto(HeadPtr, Newest(HeadPtr))
      BY <1>13, QueueLocations DEF LinkEvent
    <3> QED
      BY <3>1 DEF Closed
  <2>3. Closed(hist[HeadPtr][Newest(HeadPtr)].view \cup Upto(HeadPtr, Newest(HeadPtr)))
    <3>1. Newest(HeadPtr) \in 1..Newest(HeadPtr)
      BY <1>4
    <3> QED
      BY <1>5, <3>1 DEF MSInv, Closures
  <2>4. Closed(cur[t] \cup Upto(HeadPtr, Newest(HeadPtr)))
    BY <2>1, <2>2, ClosedUnion
  <2>5. Closed(Joined(t, HeadPtr) \cup Upto(HeadPtr, Newest(HeadPtr)))
    <3>1. Joined(t, HeadPtr) \cup Upto(HeadPtr, Newest(HeadPtr))
            = (hist[HeadPtr][Newest(HeadPtr)].view \cup Upto(HeadPtr, Newest(HeadPtr)))
                \cup (cur[t] \cup Upto(HeadPtr, Newest(HeadPtr)))
      BY DEF Joined
    <3> QED
      BY <2>3, <2>4, <3>1, ClosedUnion
  <2>6. End' = End
    BY <1>8, <1>16
  <2> QED
    BY <1>5, <1>12, <1>18, <1>23, <2>4, <2>5, <2>6, ClosuresStay
<1>41. Reading'
  <2>1. \A u \in Thread \ {t} : Locals(u)'
    BY <1>18, <1>23, <1>32, OthersRead
  <2>2. Locals(t)'
    BY <1>21, NoReading
  <2> QED
    BY <2>1, <2>2 DEF Reading
<1>42. MSTypes'
  <2>1. \A m \in Node : \A j \in 1..Newest(Value(m))' : Val(Value(m), j)' \in Nat
    BY <1>32 DEF MSInv, MSTypes
  <2>2. \A m \in Node : \A j \in 1..Newest(NextOf(m))' : Val(NextOf(m), j)' \in Pointer
    BY <1>32 DEF MSInv, MSTypes
  <2>3. rel' = [u \in Thread |-> {}]
    BY <1>13 DEF MSInv, MSTypes
  <2>4. enqueues' \in 0..MaxEnqueues /\ dequeues' \in 0..MaxDequeues
    BY <1>1 DEF MSInv, MSTypes
  <2> QED
    BY <1>13, <1>21, <1>22, <1>25, <2>1, <2>2, <2>3, <2>4 DEF MSTypes
<1>43. Moves
  BY <1>8, <1>14, <1>16, <1>18 DEF Moves
<1> QED
  BY <1>13, <1>31, <1>34, <1>35, <1>36, <1>38, <1>39, <1>40, <1>41, <1>42, <1>43 DEF MSInv

-----------------------------------------------------------------------------
(* init_queue() leaves one message in every location.                      *)
LEMMA InitLocations ==
  ASSUME MSInit
  PROVE  /\ MemType(MSLoc, Content) /\ \A x \in MSLoc : Linear(x)
         /\ rel = [t \in Thread |-> {}]
         /\ \A x \in MSLoc : Newest(x) = 1 /\ hist[x][1].view = {} /\ Val(x, 1) \in Content
         /\ Val(HeadPtr, 1) = [ptr |-> Dummy, count |-> 0]
         /\ Val(TailPtr, 1) = [ptr |-> Dummy, count |-> 0]
         /\ Val(NextOf(Dummy), 1) = [ptr |-> null, count |-> 0]
         /\ \A m \in Node : m # Dummy => Val(NextOf(m), 1) = [ptr |-> POISON, count |-> 0]
         /\ \A m \in Node : Val(Value(m), 1) = 0
         /\ \A t \in Thread : cur[t] = {<<x, 1>> : x \in MSLoc}
<1> DEFINE F == [x \in MSLoc |->
       CASE x \in {HeadPtr, TailPtr} -> MakePointer(Dummy, 0)
         [] x = NextOf(Dummy) -> MakePointer(null, 0)
         [] x[1] = "next" /\ x[2] # Dummy -> MakePointer(POISON, 0)
         [] x[1] = "value" -> 0]
<1>1. /\ hist = [x \in MSLoc |-> <<Message(1, F[x], {}, "store")>>]
      /\ cur = [t \in Thread |-> {<<x, 1>> : x \in MSLoc}]
      /\ acq = [t \in Thread |-> {}] /\ rel = [t \in Thread |-> {}] /\ sc = {}
  BY DEF MSInit, MemInit
<1>2. \A m : MakePointer(m, 0) = [ptr |-> m, count |-> 0]
  <2>1. 0 % CountRange = 0
    BY MSQueueAssumption
  <2> QED
    BY <2>1 DEF MakePointer
<1>3. /\ HeadPtr[1] = "head" /\ TailPtr[1] = "tail"
      /\ \A m : NextOf(m)[1] = "next" /\ NextOf(m)[2] = m /\ Value(m)[1] = "value"
  BY DEF HeadPtr, TailPtr, NextOf, Value
<1>4. F[HeadPtr] = [ptr |-> Dummy, count |-> 0] /\ F[TailPtr] = [ptr |-> Dummy, count |-> 0]
  BY <1>2, <1>3, QueueLocations
<1>5. F[NextOf(Dummy)] = [ptr |-> null, count |-> 0]
  BY <1>2, <1>3, QueueLocations
<1>6. ASSUME NEW m \in Node
      PROVE  /\ m # Dummy => F[NextOf(m)] = [ptr |-> POISON, count |-> 0]
             /\ F[Value(m)] = 0
  <2>1. NextOf(m) \in MSLoc \ {HeadPtr, TailPtr} /\ Value(m) \in MSLoc \ {HeadPtr, TailPtr}
        /\ Value(m) # NextOf(Dummy) /\ (m # Dummy => NextOf(m) # NextOf(Dummy))
    BY QueueLocations
  <2>2. F[Value(m)] = 0
    BY <1>3, <2>1
  <2>3. m # Dummy => F[NextOf(m)] = MakePointer(POISON, 0)
    BY <1>3, <2>1
  <2> QED
    BY <1>2, <2>2, <2>3
<1> HIDE DEF F
<1>7. ASSUME NEW x \in MSLoc
      PROVE  F[x] \in Content
  <2>1. CountRange \in Nat /\ 0 \in 0..(CountRange - 1)
    BY MSQueueAssumption
  <2>2. /\ [ptr |-> Dummy, count |-> 0] \in Pointer /\ [ptr |-> null, count |-> 0] \in Pointer
        /\ [ptr |-> POISON, count |-> 0] \in Pointer
    BY <2>1, QueueLocations DEF Pointer
  <2>3. \A m \in Node : F[NextOf(m)] \in Pointer
    BY <1>5, <1>6, <2>2
  <2> QED
    BY <1>4, <1>6, <2>2, <2>3 DEF MSLoc, Content
<1>8. ASSUME NEW x \in MSLoc
      PROVE  /\ hist[x] \in Seq(Messages(MSLoc, Content)) /\ Len(hist[x]) = 1
             /\ hist[x][1].id = 1 /\ hist[x][1].val = F[x] /\ hist[x][1].view = {}
  <2>1. PICK m : m = Message(1, F[x], {}, "store")
    OBVIOUS
  <2>2. m \in Messages(MSLoc, Content) /\ m.id = 1 /\ m.val = F[x] /\ m.view = {}
    BY <1>7, <2>1 DEF Message, Messages
  <2>3. hist[x] = <<m>>
    BY <1>1, <2>1
  <2> QED
    BY <2>2, <2>3
<1>9. MemType(MSLoc, Content)
  <2>1. {<<x, 1>> : x \in MSLoc} \subseteq Events(MSLoc)
    BY DEF Events
  <2>2. hist \in [MSLoc -> Seq(Messages(MSLoc, Content))]
    BY <1>1, <1>8
  <2> QED
    BY <1>1, <1>8, <2>1, <2>2 DEF MemType
<1>10. \A x \in MSLoc : Linear(x)
  BY <1>8 DEF Linear
<1>11. \A x \in MSLoc : Newest(x) = 1 /\ hist[x][1].view = {} /\ Val(x, 1) = F[x] /\ F[x] \in Content
  BY <1>7, <1>8 DEF Newest, Val
<1>12. \A m \in Node : NextOf(m) \in MSLoc /\ Value(m) \in MSLoc
  BY QueueLocations
<1>13. HeadPtr \in MSLoc /\ TailPtr \in MSLoc /\ Dummy \in Node
  BY QueueLocations
<1>14. \A m \in Node : m # Dummy => Val(NextOf(m), 1) = [ptr |-> POISON, count |-> 0]
  BY <1>6, <1>11, <1>12
<1>15. \A m \in Node : Val(Value(m), 1) = 0
  BY <1>6, <1>11, <1>12
<1>16. Val(NextOf(Dummy), 1) = [ptr |-> null, count |-> 0]
  BY <1>5, <1>11, <1>12, <1>13
<1> QED
  BY <1>1, <1>4, <1>9, <1>10, <1>11, <1>13, <1>14, <1>15, <1>16

LEMMA InitEnds ==
  ASSUME MSInit
  PROVE  HeadPos = 0 /\ TailPos = 0 /\ End = 0
<1>1. /\ \A x \in MSLoc : Newest(x) = 1
      /\ Val(TailPtr, 1) = [ptr |-> Dummy, count |-> 0]
      /\ Val(NextOf(Dummy), 1) = [ptr |-> null, count |-> 0]
  BY InitLocations
<1>2. HeadPtr \in MSLoc /\ TailPtr \in MSLoc /\ NextOf(Dummy) \in MSLoc
  BY QueueLocations
<1>3. HeadPos = 0 /\ TailPos = 0
  BY <1>1, <1>2 DEF HeadPos, TailPos
<1>4. AfterTail = null
  <2>1. Ptr(TailPtr) = Dummy
    BY <1>1, <1>2 DEF Ptr
  <2>2. Ptr(NextOf(Dummy)) = null
    BY <1>1, <1>2 DEF Ptr
  <2> QED
    BY <2>1, <2>2 DEF AfterTail
<1> QED
  BY <1>3, <1>4 DEF End

LEMMA MSInitial ==
  ASSUME MSInit
  PROVE  MSInv
<1>1. /\ pc = [t \in Thread |-> "idle"] /\ loc = [t \in Thread |-> NoLocals]
      /\ free_lists = [t \in Thread |->
           [i \in 1..MAX_FREELIST |-> IF i <= INITIAL_FREE THEN <<t, i>> ELSE null]]
      /\ enqueues = 0 /\ dequeues = 0 /\ out = <<>>
  BY DEF MSInit
<1>2. /\ MemType(MSLoc, Content) /\ \A x \in MSLoc : Linear(x)
      /\ rel = [t \in Thread |-> {}]
      /\ \A x \in MSLoc : Newest(x) = 1 /\ hist[x][1].view = {} /\ Val(x, 1) \in Content
      /\ Val(HeadPtr, 1) = [ptr |-> Dummy, count |-> 0]
      /\ Val(TailPtr, 1) = [ptr |-> Dummy, count |-> 0]
      /\ Val(NextOf(Dummy), 1) = [ptr |-> null, count |-> 0]
      /\ \A m \in Node : m # Dummy => Val(NextOf(m), 1) = [ptr |-> POISON, count |-> 0]
      /\ \A m \in Node : Val(Value(m), 1) = 0
      /\ \A t \in Thread : cur[t] = {<<x, 1>> : x \in MSLoc}
  BY InitLocations
<1>3. /\ HeadPtr \in MSLoc /\ TailPtr \in MSLoc /\ Dummy \in Node
      /\ \A m \in Node : NextOf(m) \in MSLoc /\ Value(m) \in MSLoc
  BY QueueLocations
<1>6. HeadPos = 0 /\ TailPos = 0 /\ End = 0
  BY InitEnds
<1>7. NodeAt(0) = Dummy /\ Position(0) = [ptr |-> Dummy, count |-> 0]
  BY <1>2, <1>6 DEF NodeAt, Position
<1>8. /\ pc \in [Thread -> QueueLabel] /\ \A t \in Thread : pc[t] = "idle"
      /\ "idle" \notin MakingLabel /\ "idle" \notin ReadyLabel
  BY <1>1 DEF QueueLabel, MakingLabel, ReadyLabel
<1>9. loc \in [Thread -> Local] /\ \A t \in Thread : loc[t].node = null
  <2>1. NoLocals \in Local /\ NoLocals.node = null
    BY DEF NoLocals, Local
  <2> QED
    BY <1>1, <2>1
<1>10. /\ INITIAL_FREE \in Nat /\ INITIAL_FREE <= MAX_FREELIST
       /\ \A t \in Thread, i \in 1..INITIAL_FREE : <<t, i>> \in Node /\ <<t, i>> # Dummy
  <2>1. Len(Dummy) = 1
    BY DEF Dummy
  <2>2. \A t, i : Len(<<t, i>>) = 2
    OBVIOUS
  <2>3. \A t, i : <<t, i>> # Dummy
    BY <2>1, <2>2
  <2> QED
    BY <2>3, MSQueueAssumption DEF Node
<1>11. /\ free_lists \in [Thread -> [1..MAX_FREELIST -> Node \cup {null}]]
       /\ \A t \in Thread, i \in 1..MAX_FREELIST :
            free_lists[t][i] \in Node => free_lists[t][i] = <<t, i>> /\ free_lists[t][i] # Dummy
  <2>1. ASSUME NEW t \in Thread, NEW i \in 1..MAX_FREELIST
        PROVE  /\ free_lists[t][i] \in Node \cup {null}
               /\ free_lists[t][i] \in Node => free_lists[t][i] = <<t, i>> /\ free_lists[t][i] # Dummy
    <3>1. free_lists[t][i] = IF i <= INITIAL_FREE THEN <<t, i>> ELSE null
      BY <1>1
    <3>2. i <= INITIAL_FREE => i \in 1..INITIAL_FREE
      BY <1>10
    <3>3. null \notin Node
      BY IndexAssumption
    <3> QED
      BY <1>10, <3>1, <3>2, <3>3
  <2>2. PICK G : G = [t \in Thread |->
           [i \in 1..MAX_FREELIST |-> IF i <= INITIAL_FREE THEN <<t, i>> ELSE null]]
                 /\ G = free_lists
    BY <1>1
  <2>3. \A t \in Thread : free_lists[t] = [i \in 1..MAX_FREELIST |-> free_lists[t][i]]
    BY <2>2
  <2>4. \A t \in Thread : free_lists[t] \in [1..MAX_FREELIST -> Node \cup {null}]
    BY <2>1, <2>3
  <2> QED
    BY <2>1, <2>2, <2>4
<1>12. \A m \in Node : ~Making(m) /\ ~Ready(m)
  BY <1>8 DEF Making, Ready
<1>13. \A t \in Thread, m \in Node : Holds(t, m) => m # Dummy /\ \E i \in 1..MAX_FREELIST : m = <<t, i>>
  BY <1>8, <1>11 DEF Holds
<1>14. MSTypes
  <2>1. \A m \in Node : \A i \in 1..Newest(Value(m)) : Val(Value(m), i) \in Nat
    <3>1. \A m \in Node : \A i \in 1..Newest(Value(m)) : i = 1
      BY <1>2, <1>3
    <3> QED
      BY <1>2, <3>1
  <2>2. \A m \in Node : \A i \in 1..Newest(NextOf(m)) : Val(NextOf(m), i) \in Pointer
    <3>1. \A m \in Node : \A i \in 1..Newest(NextOf(m)) : i = 1
      BY <1>2, <1>3
    <3>2. CountRange \in Nat /\ 0 \in 0..(CountRange - 1)
      BY MSQueueAssumption
    <3>3. \A m \in Node : Val(NextOf(m), 1) \in Pointer
      BY <1>2, <3>2 DEF Pointer
    <3> QED
      BY <3>1, <3>3
  <2>3. enqueues \in 0..MaxEnqueues /\ dequeues \in 0..MaxDequeues
    BY <1>1, MSQueueAssumption
  <2> QED
    BY <1>2, <1>8, <1>9, <1>11, <2>1, <2>2, <2>3 DEF MSTypes
<1>15. Causal
  <2>1. \A t \in Thread, x \in MSLoc : <<x, 1>> \in cur[t]
    BY <1>2
  <2>2. \A t \in Thread, x \in MSLoc, j \in Nat : <<x, j>> \in cur[t] => j <= Newest(x)
    BY <1>2
  <2>3. \A y \in MSLoc : \A i \in 1..Newest(y) : hist[y][i].view = {}
    BY <1>2
  <2> QED
    BY <2>1, <2>2, <2>3 DEF Causal
<1>16. Ends
  <2>1. Makers = {}
    BY <1>8 DEF Makers
  <2>2. Cardinality(Makers) = 0
    BY <2>1, FS_EmptySet
  <2>3. \A k \in 0..0 : k = 0 /\ k + 1 = 1
    OBVIOUS
  <2>4. 2..Newest(HeadPtr) = {} /\ 2..Newest(TailPtr) = {}
    BY <1>2, <1>3
  <2> QED
    BY <1>1, <1>2, <1>3, <1>6, <1>7, <2>2, <2>3, <2>4 DEF Ends
<1>17. \A m \in Node : /\ Uses(m, End + 1) = (IF m = Dummy THEN 1 ELSE 0)
                       /\ Base(m) = (IF m = Dummy THEN 1 ELSE 2)
  <2>1. \A m : Uses(m, 0) = 0 /\ Uses(m, 0 + 1) = Uses(m, 0) + (IF NodeAt(0) = m THEN 1 ELSE 0)
    BY UsesStep DEF UsesLaw
  <2> QED
    BY <1>6, <1>7, <2>1 DEF Base
<1>18. Nexts
  <2>1. ASSUME NEW m \in Node
        PROVE  Newest(NextOf(m)) = NextLength(m)
    <3>1. Newest(NextOf(m)) = 1
      BY <1>2, <1>3
    <3>2. NextLength(m) = Base(m) - 1 + 2 * Uses(m, End + 1) + 0 - (IF m = Dummy THEN 1 ELSE 0)
      BY <1>6, <1>7, <1>12 DEF NextLength
    <3> QED
      BY <1>17, <3>1, <3>2
  <2>2. ASSUME NEW m \in Node, NEW o \in 0..Newest(NextOf(m))
        PROVE  /\ NullIndex(m, o) <= Newest(NextOf(m)) =>
                    Val(NextOf(m), NullIndex(m, o)) = [ptr |-> null, count |-> o]
               /\ ~(LinkIndex(m, o) <= Newest(NextOf(m)))
    <3>1. Newest(NextOf(m)) = 1 /\ o \in {0, 1}
      BY <1>2, <1>3
    <3>2. NullIndex(m, o) = Base(m) + 2 * o /\ LinkIndex(m, o) = Base(m) + 2 * o + 1
      BY Bases
    <3>3. NullIndex(m, o) <= 1 => m = Dummy /\ o = 0 /\ NullIndex(m, o) = 1
      BY <1>17, <3>1, <3>2
    <3>4. ~(LinkIndex(m, o) <= 1)
      BY <1>17, <3>1, <3>2
    <3> QED
      BY <1>2, <3>1, <3>3, <3>4
  <2>3. 0..(End - 1) = {}
    BY <1>6
  <2> QED
    BY <1>2, <2>1, <2>2, <2>3 DEF Nexts
<1>19. Items
  <2>1. ASSUME NEW m \in Node
        PROVE  Newest(Value(m)) = ValueLength(m) /\ 2..Newest(Value(m)) = {}
    <3>1. Newest(Value(m)) = 1
      BY <1>2, <1>3
    <3>2. ValueLength(m) = Base(m) - 1 + Uses(m, End + 1) + 0
      BY <1>12 DEF ValueLength
    <3> QED
      BY <1>17, <3>1, <3>2
  <2>2. out = [k \in 1..HeadPos |-> ItemAt(k)]
    <3>1. 1..HeadPos = {} /\ out = <<>>
      BY <1>1, <1>6
    <3> QED
      BY <3>1
  <2> QED
    BY <2>1, <2>2 DEF Items
<1>20. Apart
  <2>1. \A j, k \in HeadPos..End : NodeAt(j) = NodeAt(k) => j = k
    BY <1>6
  <2>2. \A m \in Node : InList(m) => m = Dummy
    BY <1>6, <1>7 DEF InList
  <2>3. \A t, u \in Thread, m \in Node : Holds(t, m) /\ Holds(u, m) => t = u
    BY <1>13
  <2>4. ASSUME NEW t \in Thread, NEW i \in 1..MAX_FREELIST, NEW j \in 1..MAX_FREELIST,
               free_lists[t][i] = free_lists[t][j], free_lists[t][i] # null
        PROVE  i = j
    <3>1. free_lists[t][i] \in Node /\ free_lists[t][j] \in Node
      BY <1>11, <2>4
    <3>2. <<t, i>> = <<t, j>>
      BY <1>11, <2>4, <3>1
    <3> QED
      BY <3>2
  <2> QED
    BY <1>8, <1>9, <1>13, <2>1, <2>2, <2>3, <2>4 DEF Apart
<1>21. Owned
  <2>1. ASSUME NEW t \in Thread, NEW m \in Node, Holds(t, m)
        PROVE  Owns(t, m)
    <3>1. m # Dummy
      BY <1>13, <2>1
    <3>2. <<NextOf(m), Newest(NextOf(m))>> \in cur[t] /\ <<Value(m), Newest(Value(m))>> \in cur[t]
      BY <1>2, <1>3
    <3>3. \A p \in 0..End : NodeAt(p) # m
      BY <1>6, <1>7, <3>1
    <3> QED
      BY <3>2, <3>3 DEF Owns
  <2> QED
    BY <2>1 DEF Owned
<1>22. 1..TailPos = {} /\ 1..HeadPos = {} /\ 0..(End - 1) = {}
  BY <1>6
<1>23. Published
  BY <1>22 DEF Published
<1>24. Closures
  BY <1>22 DEF Closures, Closed
<1>25. Reading
  BY <1>8 DEF Reading, Locals, TailLabel, HeadLabel
<1> QED
  BY <1>14, <1>15, <1>16, <1>18, <1>19, <1>20, <1>21, <1>23, <1>24, <1>25 DEF MSInv

LEMMA MSStep ==
  ASSUME MSInv, CountsFit, [MSNext]_msVars
  PROVE  MSInv' /\ Moves
<1>1. CASE UNCHANGED msVars
  BY <1>1, StutterStep
<1>2. ASSUME NEW t \in Thread, Enqueue(t)
      PROVE  MSInv' /\ Moves
  BY <1>2, StoreValueStep, LoadOwnNextStep, StoreOwnNextStep, LoadTailStep, LoadNextStep,
     RecheckTailStep, LinkStep, LinkFailsStep, HelpLoadNextStep, HelpTailStep, SwingTailStep
     DEF Enqueue
<1>3. ASSUME NEW t \in Thread, Dequeue(t)
      PROVE  MSInv' /\ Moves
  BY <1>3, CallStep, LoadHeadStep, DeqTailStep, DeqNextStep, RecheckHeadStep, DeqHelpStep,
     LoadValueStep, UnlinkStep, UnlinkFailsStep DEF Dequeue
<1>4. CASE MSTerminated
  BY <1>1, <1>4 DEF MSTerminated
<1> QED
  BY <1>1, <1>2, <1>3, <1>4 DEF MSNext

(* In every reachable state the queue is a chain of nodes from head to the *)
(* end, each node in one place, and every thread has seen what the         *)
(* pointers it follows lead to: as long as the counts do not wrap.         *)
THEOREM MSInvariance == CountsFit => (MSSpec => []MSInv)
<1> SUFFICES ASSUME CountsFit PROVE MSSpec => []MSInv
  OBVIOUS
<1>1. MSInit => MSInv
  BY MSInitial
<1>2. MSInv /\ [MSNext]_msVars => MSInv'
  BY MSStep
<1> QED
  BY <1>1, <1>2, PTL DEF MSSpec

(* No thread follows the null or the poison index: the assertion of        *)
(* dequeue(); the value it returns is one that was enqueued.               *)
THEOREM MSTypeCorrectness == CountsFit => (MSSpec => []MSTypeOK)
<1>1. ASSUME MSInv
      PROVE  MSTypeOK
  <2>1. /\ HeadPos \in Nat /\ TailPos \in Nat /\ End \in Nat /\ HeadPos <= TailPos
        /\ TailPos <= End /\ \A k \in 0..End : NodeAt(k) \in Node
        /\ Ptr(TailPtr) = NodeAt(TailPos) /\ Ptr(HeadPtr) = NodeAt(HeadPos)
    BY <1>1, Positions
  <2>2. Ptr(HeadPtr) \in Node /\ Ptr(TailPtr) \in Node
    BY <2>1
  <2>3. ASSUME NEW t \in Thread, pc[t] \in TailLabel
        PROVE  loc[t].tail.ptr \in Node
    <3>1. PICK p \in 0..TailPos : loc[t].tail = Position(p)
      BY <1>1, <2>3 DEF MSInv, Reading, Locals, TailRead
    <3>2. p \in 0..End
      BY <2>1
    <3> QED
      BY <2>1, <3>1, <3>2 DEF Position
  <2>4. ASSUME NEW t \in Thread, pc[t] \in {"recheckHead", "deqHelp", "value", "unlink"}
        PROVE  /\ pc[t] \in {"deqHelp", "value", "unlink"} => loc[t].next.ptr \in Node
               /\ pc[t] = "recheckHead" => loc[t].head.ptr \in Node /\ loc[t].next.ptr # POISON
               /\ pc[t] = "unlink" => loc[t].val \in 1..enqueues
    <3>1. PICK h \in 0..HeadPos, q \in 0..TailPos : HeadRead(t, h, q)
      BY <1>1, <2>4 DEF MSInv, Reading, Locals, HeadLabel
    <3>2. /\ loc[t].head = Position(h)
          /\ pc[t] = "recheckHead" => loc[t].next.ptr # POISON
          /\ pc[t] \in {"deqHelp", "value", "unlink"} => h < End /\ loc[t].next.ptr = NodeAt(h + 1)
          /\ pc[t] = "unlink" => loc[t].val \in 1..enqueues
      BY <3>1 DEF HeadRead
    <3>3. h \in 0..End /\ (h < End => h + 1 \in 0..End)
      BY <2>1
    <3> QED
      BY <2>1, <3>2, <3>3 DEF Position
  <2> QED
    BY <2>2, <2>3, <2>4 DEF MSTypeOK, TailLabel
<1> QED
  BY <1>1, MSInvariance, PTL

-----------------------------------------------------------------------------
(* The list of the abstract queue is the nodes from head to the end.       *)
ListLaw ==
  /\ Size = End - HeadPos
  /\ \A k \in 0..(End - HeadPos) : ListNode[k] = NodeAt(HeadPos + k)

LEMMA NodesFinite == IsFiniteSet(Node) /\ Cardinality(Node) \in Nat
<1>1. IsFiniteSet(1..INITIAL_FREE)
  <2>1. 1 \in Int /\ INITIAL_FREE \in Int
    BY MSQueueAssumption
  <2> QED
    BY <2>1, FS_Interval
<1>2. IsFiniteSet(Thread \X (1..INITIAL_FREE))
  BY <1>1, MSQueueAssumption, FS_Product
<1>3. IsFiniteSet({Dummy})
  BY FS_Singleton
<1>4. IsFiniteSet(Node)
  BY <1>2, <1>3, FS_Union DEF Node
<1> QED
  BY <1>4, FS_CardinalityType

LEMMA ListIs == MSInv => ListLaw
<1> SUFFICES ASSUME MSInv PROVE ListLaw
  OBVIOUS
<1>1. /\ HeadPos \in Nat /\ End \in Nat /\ HeadPos <= End
      /\ \A k \in 0..End : NodeAt(k) \in Node
      /\ Ptr(HeadPtr) = NodeAt(HeadPos)
  BY Positions
<1>2. PICK p \in Nat, d \in Nat : p = HeadPos /\ d = End - HeadPos /\ End = p + d
  BY <1>1
<1>3. PICK N \in Nat : N = Cardinality(Node)
  BY NodesFinite
<1>4. \A k \in 0..d : p + k \in HeadPos..End /\ p + k \in 0..End /\ NodeAt(p + k) \in Node
  BY <1>1, <1>2
<1>5. d + 1 <= N
  <2>1. PICK f : f = [k \in 0..d |-> NodeAt(p + k)]
    OBVIOUS
  <2>2. f \in [0..d -> Node]
    BY <1>4, <2>1
  <2>3. \A j, k \in 0..d : f[j] = f[k] => j = k
    <3>1. ASSUME NEW j \in 0..d, NEW k \in 0..d, f[j] = f[k]
          PROVE  j = k
      <4>1. NodeAt(p + j) = NodeAt(p + k)
        BY <2>1, <3>1
      <4>2. p + j = p + k
        BY <1>4, <4>1 DEF MSInv, Apart
      <4> QED
        BY <4>2
    <3> QED
      BY <3>1
  <2>4. f \in Injection(0..d, Node)
    BY <2>2, <2>3 DEF Injection, IsInjective
  <2>5. Cardinality(0..d) <= N
    BY <1>3, <2>4, NodesFinite, FS_Injection
  <2>6. Cardinality(0..d) = d + 1
    <3>1. 0 \in Int /\ d \in Int
      OBVIOUS
    <3>2. Cardinality(0..d) = IF 0 > d THEN 0 ELSE d - 0 + 1
      BY <3>1, FS_Interval
    <3> QED
      BY <3>2
  <2> QED
    BY <2>5, <2>6
<1>6. ASSUME NEW k \in 1..d
      PROVE  Ptr(NextOf(NodeAt(p + (k - 1)))) = NodeAt(p + k)
  <2>1. PICK j \in 0..End : j = p + (k - 1) /\ j \in HeadPos..End /\ j < End /\ j + 1 = p + k
    BY <1>1, <1>2
  <2>2. Newest(NextOf(NodeAt(j))) = LinkAt(j)
    BY <2>1, LastUse
  <2>3. Val(NextOf(NodeAt(j)), LinkAt(j)).ptr = NodeAt(j + 1)
    BY <2>1, FieldValues
  <2> QED
    BY <2>1, <2>2, <2>3 DEF Ptr
<1>7. Ptr(NextOf(NodeAt(p + d))) = null
  <2>1. End \in 0..End /\ p + d = End
    BY <1>1, <1>2
  <2>2. Newest(NextOf(NodeAt(End))) = NullAt(End) /\ Val(NextOf(NodeAt(End)), NullAt(End)).ptr = null
    BY <2>1, Fields, FieldValues
  <2> QED
    BY <2>1, <2>2 DEF Ptr
<1> DEFINE Body(f, k) ==
             IF k = 0 THEN Ptr(HeadPtr)
             ELSE LET n == f[k - 1] IN IF n \in Node THEN Ptr(NextOf(n)) ELSE null
           Chain0 == [k \in 0..N |-> IF k <= d THEN NodeAt(p + k) ELSE null]
(* Whatever follows the links from head walks along the positions.         *)
<1>8. ASSUME NEW f, \A k \in 0..N : f[k] = Body(f, k)
      PROVE  \A k \in 0..N : f[k] = IF k <= d THEN NodeAt(p + k) ELSE null
  <2> DEFINE Wrong == {k \in 0..N : f[k] # IF k <= d THEN NodeAt(p + k) ELSE null}
  <2>1. SUFFICES ASSUME Wrong # {} PROVE FALSE
    OBVIOUS
  <2>2. PICK k \in Wrong : \A j \in Wrong : k <= j
    <3>1. Wrong \subseteq 0..N
      OBVIOUS
    <3> HIDE DEF Wrong
    <3> QED
      BY <2>1, <3>1, SmallestIndex
  <2>3. CASE k = 0
    <3>1. f[k] = NodeAt(p + k) /\ k <= d
      BY <1>1, <1>2, <1>8, <2>3
    <3> QED
      BY <3>1
  <2>4. CASE k # 0
    <3>1. k - 1 \in 0..N /\ k \in 0..N /\ k \in Nat /\ ~(k <= k - 1)
      BY <2>4
    <3>2. f[k - 1] = IF k - 1 <= d THEN NodeAt(p + (k - 1)) ELSE null
      BY <2>2, <3>1
    <3>3. f[k] = IF f[k - 1] \in Node THEN Ptr(NextOf(f[k - 1])) ELSE null
      BY <1>8, <2>4, <3>1
    <3>4. CASE k <= d
      <4>1. k \in 1..d /\ k - 1 \in 0..d /\ k - 1 <= d
        BY <2>4, <3>1, <3>4
      <4>2. f[k] = NodeAt(p + k)
        BY <1>4, <1>6, <3>2, <3>3, <4>1
      <4> QED
        BY <3>4, <4>2
    <3>5. CASE ~(k <= d)
      <4>1. CASE k - 1 = d
        <5>1. k - 1 <= d /\ d \in 0..d
          BY <4>1
        <5>2. f[k] = null
          BY <1>4, <1>7, <3>2, <3>3, <4>1, <5>1
        <5> QED
          BY <3>5, <5>2
      <4>2. CASE k - 1 # d
        <5>1. ~(k - 1 <= d)
          BY <3>1, <3>5, <4>2
        <5>2. f[k] = null
          BY <3>2, <3>3, <5>1, IndexAssumption
        <5> QED
          BY <3>5, <5>2
      <4> QED
        BY <4>1, <4>2
    <3> QED
      BY <3>4, <3>5
  <2> QED
    BY <2>3, <2>4
<1>9. Chain0 = [k \in 0..N |-> Body(Chain0, k)]
  <2>1. ASSUME NEW k \in 0..N
        PROVE  Chain0[k] = Body(Chain0, k)
    <3>1. CASE k = 0
      BY <1>1, <1>2, <3>1
    <3>2. CASE k # 0 /\ k <= d
      <4>1. k \in 1..d /\ k - 1 \in 0..d /\ k - 1 \in 0..N /\ k - 1 <= d
        BY <3>2
      <4>2. Chain0[k - 1] = NodeAt(p + (k - 1)) /\ Chain0[k] = NodeAt(p + k)
        BY <3>2, <4>1
      <4> QED
        BY <1>4, <1>6, <3>2, <4>1, <4>2
    <3>3. CASE k # 0 /\ ~(k <= d)
      <4>1. k - 1 \in 0..N /\ Chain0[k] = null
        BY <3>3
      <4>2. CASE k - 1 = d
        <5>1. d \in 0..d /\ Chain0[k - 1] = NodeAt(p + d)
          BY <4>1, <4>2
        <5> QED
          BY <1>4, <1>7, <3>3, <4>1, <5>1
      <4>3. CASE k - 1 # d
        <5>1. ~(k - 1 <= d)
          BY <3>3, <4>3
        <5>2. Chain0[k - 1] = null
          BY <4>1, <5>1
        <5> QED
          BY <3>3, <4>1, <5>2, IndexAssumption
      <4> QED
        BY <4>2, <4>3
    <3> QED
      BY <3>1, <3>2, <3>3
  <2> HIDE DEF Body
  <2> QED
    BY <2>1
<1>10. ListNode = [k \in 0..N |-> Body(ListNode, k)]
  <2> HIDE DEF Chain0
  <2>1. \E f : f = [k \in 0..N |-> Body(f, k)]
    BY <1>9
  <2> QED
    BY <1>3, <2>1 DEF ListNode
<1>11. \A k \in 0..N : ListNode[k] = IF k <= d THEN NodeAt(p + k) ELSE null
  <2> HIDE DEF Chain0
  <2>1. \A k \in 0..N : ListNode[k] = Body(ListNode, k)
    <3> HIDE DEF Body
    <3> QED
      BY <1>10
  <2> QED
    BY <1>8, <2>1
<1>12. Size = d
  <2>1. {k \in 1..N : ListNode[k] \in Node} = 1..d
    <3>1. \A k \in 1..N : k \in 0..N
      OBVIOUS
    <3>2. \A k \in 1..N : ListNode[k] \in Node <=> k <= d
      <4>1. \A k \in 1..N : k <= d => k \in 0..d
        OBVIOUS
      <4> QED
        BY <1>4, <1>11, <3>1, <4>1, IndexAssumption
    <3>3. 1..d = {k \in 1..N : k <= d}
      BY <1>5
    <3> QED
      BY <3>2, <3>3
  <2>2. Cardinality(1..d) = d
    <3>1. 1 \in Int /\ d \in Int
      OBVIOUS
    <3>2. Cardinality(1..d) = IF 1 > d THEN 0 ELSE d - 1 + 1
      BY <3>1, FS_Interval
    <3> QED
      BY <3>2
  <2> QED
    BY <1>3, <2>1, <2>2 DEF Size
<1>13. \A k \in 0..d : ListNode[k] = NodeAt(p + k)
  <2>1. \A k \in 0..d : k \in 0..N /\ k <= d
    BY <1>5
  <2> QED
    BY <1>11, <2>1
<1> QED
  BY <1>2, <1>12, <1>13 DEF ListLaw

LEMMA ListIsThen == MSInv' => ListLaw'
BY ListIs, PTL

-----------------------------------------------------------------------------
(* Only a dequeue() that finds the queue empty leaves recheckHead for idle. *)
LEMMA EmptyAnswer ==
  ASSUME MSInv, MSNext, NEW t \in Thread, pc[t] = "recheckHead", pc'[t] = "idle"
  PROVE  \E i \in Readable(t, HeadPtr, relaxed) :
           Val(HeadPtr, i) = loc[t].head /\ loc[t].head.ptr = loc[t].tail.ptr
           /\ loc[t].next.ptr = null
<1>1. pc \in [Thread -> QueueLabel]
  BY DEF MSInv, MSTypes
<1>2. PICK u \in Thread : Enqueue(u) \/ Dequeue(u)
  <2>1. ~MSTerminated
    BY DEF MSTerminated, msVars
  <2> QED
    BY <2>1 DEF MSNext
<1>3. ASSUME NEW from, NEW to, Goto(u, from, to), from # "recheckHead"
      PROVE  FALSE
  BY <1>1, <1>3 DEF Goto
<1>4. u = t
  <2>1. SUFFICES ASSUME u # t PROVE FALSE
    OBVIOUS
  <2>2. \A from, to : ~Goto(u, from, to)
    BY <1>1, <2>1 DEF Goto
  <2>3. \A to : ~MoveTo(u, to)
    BY <1>1, <2>1 DEF MoveTo
  <2> QED
    BY <1>2, <2>2, <2>3
       DEF Enqueue, Dequeue, Enqueue_StoreValue, Enqueue_LoadOwnNext, Enqueue_StoreOwnNext,
           Enqueue_LoadTail, Enqueue_LoadNext, Enqueue_RecheckTail, Enqueue_Link,
           Enqueue_LinkFails, Enqueue_HelpLoadNext, Enqueue_HelpTail, Enqueue_SwingTail,
           Dequeue_Call, Dequeue_LoadHead, Dequeue_LoadTail, Dequeue_LoadNext,
           Dequeue_RecheckHead, Dequeue_HelpTail, Dequeue_LoadValue, Dequeue_Unlink,
           Dequeue_UnlinkFails
<1>5. Dequeue_RecheckHead(t)
  <2>1. \A from, to : Goto(t, from, to) => from = "recheckHead"
    BY <1>3, <1>4
  <2> QED
    BY <1>2, <1>4, <2>1
       DEF Enqueue, Dequeue, Enqueue_StoreValue, Enqueue_LoadOwnNext, Enqueue_StoreOwnNext,
           Enqueue_LoadTail, Enqueue_LoadNext, Enqueue_RecheckTail, Enqueue_Link,
           Enqueue_LinkFails, Enqueue_HelpLoadNext, Enqueue_HelpTail, Enqueue_SwingTail,
           Dequeue_Call, Dequeue_LoadHead, Dequeue_LoadTail, Dequeue_LoadNext,
           Dequeue_HelpTail, Dequeue_LoadValue, Dequeue_Unlink, Dequeue_UnlinkFails
<1>6. PICK i, to :
        /\ i \in Readable(t, HeadPtr, relaxed)
        /\ to = CASE Val(HeadPtr, i) # loc[t].head -> "loadHead"
                  [] Val(HeadPtr, i) = loc[t].head /\ loc[t].head.ptr # loc[t].tail.ptr -> "value"
                  [] OTHER -> IF loc[t].next.ptr = null THEN "idle" ELSE "deqHelp"
        /\ MoveTo(t, to)
  BY <1>5 DEF Dequeue_RecheckHead
<1>7. to = "idle"
  BY <1>1, <1>6 DEF MoveTo
<1> QED
  BY <1>6, <1>7

(* A thread that answers so has seen no link of the list.                  *)
LEMMA NothingLinked ==
  ASSUME MSInv, NEW t \in Thread, pc[t] = "recheckHead",
         NEW i \in Readable(t, HeadPtr, relaxed),
         Val(HeadPtr, i) = loc[t].head, loc[t].next.ptr = null,
         NEW k \in HeadPos..(End - 1)
  PROVE  LinkEvent(k) \notin cur[t]
<1>1. PICK h \in 0..HeadPos, q \in 0..TailPos : HeadRead(t, h, q)
  BY DEF MSInv, Reading, Locals, HeadLabel
<1>2. LinkEvent(h) \notin cur[t]
  BY <1>1, HeadUnmoved
<1>3. SUFFICES ASSUME LinkEvent(k) \in cur[t] PROVE FALSE
  OBVIOUS
<1>4. k # h
  BY <1>2, <1>3
<1>5. HeadPos \in Nat /\ End \in Nat
  BY Positions
<1>6. k \in 0..(End - 1) /\ h \in 0..(k - 1)
  BY <1>4, <1>5
<1>7. pc[t] # "helpNext"
  OBVIOUS
<1> QED
  BY <1>2, <1>3, <1>6, <1>7 DEF MSInv, Closures

LEMMA EmptyStep ==
  ASSUME MSInv, MSNext, NEW t \in Thread, pc[t] = "recheckHead", pc'[t] = "idle",
         NEW k \in 0..(Size - 1)
  PROVE  Event(NextOf(ListNode[k]), Newest(NextOf(ListNode[k]))) \notin cur[t]
<1>1. PICK i \in Readable(t, HeadPtr, relaxed) :
        Val(HeadPtr, i) = loc[t].head /\ loc[t].next.ptr = null
  BY EmptyAnswer
<1>2. /\ HeadPos \in Nat /\ End \in Nat /\ HeadPos <= End
      /\ \A j \in 0..End : NodeAt(j) \in Node
  BY Positions
<1>3. Size = End - HeadPos /\ \A j \in 0..(End - HeadPos) : ListNode[j] = NodeAt(HeadPos + j)
  BY ListIs DEF ListLaw
<1>4. k \in 0..(End - HeadPos)
  BY <1>2, <1>3
<1>5. PICK j \in Nat : j = HeadPos + k
  BY <1>2, <1>4
<1>6. j \in HeadPos..(End - 1) /\ j \in HeadPos..End /\ j \in 0..End /\ j < End
  BY <1>2, <1>3, <1>5
<1>7. ListNode[k] = NodeAt(j)
  BY <1>3, <1>4, <1>5
<1>8. Newest(NextOf(NodeAt(j))) = LinkAt(j)
  BY <1>6, LastUse
<1>9. LinkAt(j) \in 1..Newest(NextOf(NodeAt(j))) /\ NextOf(NodeAt(j)) \in MSLoc
  BY <1>2, <1>6, Fields, QueueLocations
<1>10. Event(NextOf(NodeAt(j)), LinkAt(j)) = LinkEvent(j)
  BY <1>9, UptoEvents DEF LinkEvent
<1> QED
  BY <1>1, <1>6, <1>7, <1>8, <1>10, NothingLinked

(* dequeue() finds the queue empty only if every item whose enqueue()      *)
(* happens before its return has been dequeued: its                        *)
(* JustifyingPostcondition.                                                *)
THEOREM EmptyJustified == CountsFit => (MSSpec => EmptyIsJustified)
<1> SUFFICES ASSUME CountsFit PROVE MSSpec => EmptyIsJustified
  OBVIOUS
<1>1. MSSpec => []MSInv
  BY MSInvariance
<1>2. ASSUME MSInv, [MSNext]_msVars
      PROVE  [\A t \in Thread :
                pc[t] = "recheckHead" /\ pc'[t] = "idle" =>
                  \A k \in 0..(Size - 1) :
                    LET link == NextOf(ListNode[k])
                    IN  Event(link, Newest(link)) \notin cur[t]]_msVars
  BY <1>2, EmptyStep
<1> QED
  BY <1>1, <1>2, PTL DEF MSSpec, EmptyIsJustified

-----------------------------------------------------------------------------
(* The queue and what left it, by the positions: the item of position k is *)
(* the k-th to be enqueued.                                                *)
QueuedLaw ==
  /\ HeadPos \in Nat /\ End \in Nat /\ HeadPos <= End
  /\ Queued = [k \in 1..(End - HeadPos) |-> ItemAt(HeadPos + k)]
  /\ out = [k \in 1..HeadPos |-> ItemAt(k)]
  /\ \A k \in 1..End : ItemAt(k) \in 1..MaxEnqueues
  /\ \A j, k \in 1..End : ItemAt(j) = ItemAt(k) => j = k

LEMMA QueuedIs == MSInv => QueuedLaw
<1> SUFFICES ASSUME MSInv PROVE QueuedLaw
  OBVIOUS
<1>1. /\ HeadPos \in Nat /\ End \in Nat /\ HeadPos <= End
      /\ \A j \in 0..End : NodeAt(j) \in Node
  BY Positions
<1>2. Queued = [k \in 1..(End - HeadPos) |-> ItemAt(HeadPos + k)]
  <2>1. Size = End - HeadPos /\ \A k \in 0..(End - HeadPos) : ListNode[k] = NodeAt(HeadPos + k)
    BY ListIs DEF ListLaw
  <2>2. ASSUME NEW k \in 1..(End - HeadPos)
        PROVE  Val(Value(ListNode[k]), Newest(Value(ListNode[k]))) = ItemAt(HeadPos + k)
    <3>1. PICK j \in Nat : j = HeadPos + k
      BY <1>1
    <3>2. j \in HeadPos..End /\ k \in 0..(End - HeadPos)
      BY <1>1, <3>1
    <3>3. ListNode[k] = NodeAt(j)
      BY <2>1, <3>1, <3>2
    <3>4. Newest(Value(NodeAt(j))) = ValueAt(j)
      BY <3>2, LastUse
    <3> QED
      BY <3>1, <3>3, <3>4 DEF ItemAt
  <2> QED
    BY <2>1, <2>2 DEF Queued
<1>3. ASSUME NEW k \in 1..End
      PROVE  /\ NodeAt(k) \in Node /\ ValueAt(k) \in 2..Newest(Value(NodeAt(k)))
             /\ ItemAt(k) \in 1..MaxEnqueues
  <2>1. k \in 0..End /\ k > 0
    BY <1>1
  <2>2. ValueAt(k) \in 1..Newest(Value(NodeAt(k))) /\ ValueAt(k) >= 2 /\ NodeAt(k) \in Node
    BY <1>1, <2>1, Fields
  <2>3. ValueAt(k) \in 2..Newest(Value(NodeAt(k)))
    BY <2>2
  <2>4. ItemAt(k) \in 1..enqueues
    BY <2>2, <2>3 DEF ItemAt, MSInv, Items
  <2>5. enqueues \in Nat /\ enqueues <= MaxEnqueues /\ MaxEnqueues \in Nat
    BY Bounded, MSQueueAssumption
  <2>6. ItemAt(k) \in 1..MaxEnqueues
    BY <2>4, <2>5
  <2> QED
    BY <2>2, <2>3, <2>6
<1>4. ASSUME NEW j \in 1..End, NEW k \in 1..End, ItemAt(j) = ItemAt(k), j < k
      PROVE  FALSE
  <2>1. NodeAt(j) = NodeAt(k) /\ ValueAt(j) = ValueAt(k)
    BY <1>3, <1>4 DEF ItemAt, MSInv, Items
  <2>2. PICK m \in Node : m = NodeAt(j)
    BY <1>3
  <2>3. ValueAt(j) = Base(m) + Uses(m, j) /\ ValueAt(k) = Base(m) + Uses(m, k)
    BY <2>1, <2>2 DEF ValueAt
  <2>4. Uses(m, j) \in Nat /\ Uses(m, k) \in Nat /\ Base(m) \in {1, 2}
    BY <1>1, UsesStep, Bases DEF UsesLaw
  <2>5. Uses(m, j) + 1 <= Uses(m, k)
    BY <1>1, <1>4, <2>2, UsesApart
  <2>6. PICK a \in Nat, b \in Nat, c \in Nat : a = Uses(m, j) /\ b = Uses(m, k) /\ c = Base(m)
    BY <2>4
  <2>7. c + a = c + b /\ a + 1 <= b
    BY <2>1, <2>3, <2>5, <2>6
  <2> QED
    BY <2>7
<1>5. \A j, k \in 1..End : ItemAt(j) = ItemAt(k) => j = k
  <2>1. \A j, k \in 1..End : j < k \/ k < j \/ j = k
    BY <1>1
  <2> QED
    BY <1>4, <2>1
<1>6. out = [k \in 1..HeadPos |-> ItemAt(k)]
  BY DEF MSInv, Items
<1> QED
  BY <1>1, <1>2, <1>3, <1>5, <1>6 DEF QueuedLaw

LEMMA QueuedIsThen == MSInv' => QueuedLaw'
BY QueuedIs, PTL

(* The link of a node is the enqueue() of the abstract queue.              *)
LEMMA EnqueueRefines ==
  ASSUME MSInv, MSInv', Grows, HeadPos' = HeadPos, End' = End + 1
  PROVE  Abstract!Enqueue
<1>1. PICK p \in Nat, e \in Nat : p = HeadPos /\ e = End /\ p <= e
  BY Positions
<1>2. HeadPos' = p /\ End' = e + 1
  BY <1>1
<1>3. PICK v : v = ItemAt(e + 1)'
  OBVIOUS
<1>4. PICK q : q = Queued
  OBVIOUS
<1>5. PICK I : I = [k \in 1..e |-> ItemAt(k)]
  OBVIOUS
<1>6. /\ q = [k \in 1..(e - p) |-> ItemAt(p + k)] /\ out = [k \in 1..p |-> ItemAt(k)]
      /\ \A k \in 1..e : ItemAt(k) \in 1..MaxEnqueues
  BY <1>1, <1>4, QueuedIs DEF QueuedLaw
<1>7. \A k \in 1..e : ItemAt(k)' = I[k] /\ ItemAt(k) = I[k]
  <2>1. \A k \in 1..e : k \in 0..End
    BY <1>1
  <2> QED
    BY <1>1, <1>5, <2>1, Stable
<1>8. /\ Queued' = [k \in 1..((e + 1) - p) |-> ItemAt(p + k)']
      /\ out' = [k \in 1..p |-> ItemAt(k)']
      /\ \A k \in 1..(e + 1) : ItemAt(k)' \in 1..MaxEnqueues
      /\ \A j, k \in 1..(e + 1) : ItemAt(j)' = ItemAt(k)' => j = k
  BY <1>2, QueuedIsThen DEF QueuedLaw
<1>9. \A k \in 1..(e - p) : p + k \in 1..e
  OBVIOUS
<1>10. \A k \in 1..p : k \in 1..e
  BY <1>1
<1>11. out' = out
  BY <1>6, <1>7, <1>8, <1>10
<1>12. /\ q = [k \in 1..(e - p) |-> I[p + k]] /\ out = [k \in 1..p |-> I[k]]
       /\ \A k \in 1..e : I[k] \in 1..MaxEnqueues
  BY <1>6, <1>7, <1>9, <1>10
<1>13. /\ v \in 1..MaxEnqueues /\ \A k \in 1..e : I[k] # v
       /\ Queued' = [k \in 1..((e + 1) - p) |-> IF k = (e - p) + 1 THEN v ELSE I[p + k]]
  <2>1. e + 1 \in 1..(e + 1) /\ \A k \in 1..e : k \in 1..(e + 1) /\ k # e + 1
    OBVIOUS
  <2>2. v \in 1..MaxEnqueues /\ \A k \in 1..e : I[k] # v
    BY <1>3, <1>7, <1>8, <2>1
  <2>3. \A k \in 1..((e + 1) - p) : (k = (e - p) + 1 /\ p + k = e + 1) \/ k \in 1..(e - p)
    BY <1>1
  <2>4. \A k \in 1..(e - p) : k # (e - p) + 1
    OBVIOUS
  <2>5. \A k \in 1..((e + 1) - p) : ItemAt(p + k)' = IF k = (e - p) + 1 THEN v ELSE I[p + k]
    BY <1>3, <1>7, <1>9, <2>3, <2>4
  <2> QED
    BY <1>8, <2>2, <2>5
<1>14. v \notin ToSet(q) \cup ToSet(out)
  <2>1. DOMAIN q = 1..(e - p) /\ DOMAIN out = 1..p
    BY <1>12
  <2> QED
    BY <1>9, <1>10, <1>12, <1>13, <2>1 DEF ToSet
<1>15. Queued' = Append(q, v)
  <2>1. q \in Seq(1..MaxEnqueues) /\ Len(q) = e - p
    BY <1>1, <1>9, <1>12
  <2>2. PICK g : g = Append(q, v)
    OBVIOUS
  <2>3. /\ g \in Seq(1..MaxEnqueues) /\ Len(g) = (e - p) + 1
        /\ \A k \in 1..(e - p) : g[k] = I[p + k]
        /\ g[(e - p) + 1] = v
    <3>1. /\ g \in Seq(1..MaxEnqueues) /\ Len(g) = Len(q) + 1
          /\ \A k \in 1..Len(q) : g[k] = q[k]
          /\ g[Len(q) + 1] = v
      BY <1>13, <2>1, <2>2, AppendProperties
    <3> QED
      BY <1>12, <2>1, <3>1
  <2>4. g = [k \in 1..((e - p) + 1) |-> g[k]]
    BY <2>3, LenProperties
  <2>5. (e + 1) - p = (e - p) + 1
    BY <1>1
  <2>6. \A k \in 1..((e + 1) - p) : k = (e - p) + 1 \/ k \in 1..(e - p)
    BY <1>1
  <2>7. \A k \in 1..((e + 1) - p) : g[k] = IF k = (e - p) + 1 THEN v ELSE I[p + k]
    BY <2>3, <2>6
  <2>8. [k \in 1..((e + 1) - p) |-> g[k]]
          = [k \in 1..((e + 1) - p) |-> IF k = (e - p) + 1 THEN v ELSE I[p + k]]
    BY <2>7
  <2> QED
    BY <1>13, <2>2, <2>4, <2>5, <2>8
<1> QED
  BY <1>4, <1>11, <1>13, <1>14, <1>15 DEF Abstract!Enqueue, Abstract!ToSet, ToSet

(* A move of head is the dequeue() of the abstract queue.                  *)
LEMMA DequeueRefines ==
  ASSUME MSInv, MSInv', Grows, HeadPos' = HeadPos + 1, End' = End
  PROVE  Abstract!Dequeue
<1>1. PICK p \in Nat, e \in Nat : p = HeadPos /\ e = End /\ p <= e
  BY Positions
<1>2. HeadPos' = p + 1 /\ End' = e /\ p + 1 <= e
  <2>1. HeadPos' = p + 1 /\ End' = e
    BY <1>1
  <2>2. HeadPos' <= End'
    BY QueuedIsThen DEF QueuedLaw
  <2> QED
    BY <2>1, <2>2
<1>3. PICK q : q = Queued
  OBVIOUS
<1>4. PICK I : I = [k \in 1..e |-> ItemAt(k)]
  OBVIOUS
<1>5. /\ q = [k \in 1..(e - p) |-> ItemAt(p + k)] /\ out = [k \in 1..p |-> ItemAt(k)]
      /\ \A k \in 1..e : ItemAt(k) \in 1..MaxEnqueues
  BY <1>1, <1>3, QueuedIs DEF QueuedLaw
<1>6. \A k \in 1..e : ItemAt(k)' = I[k] /\ ItemAt(k) = I[k]
  <2>1. \A k \in 1..e : k \in 0..End
    BY <1>1
  <2> QED
    BY <1>1, <1>4, <2>1, Stable
<1>7. /\ Queued' = [k \in 1..(e - (p + 1)) |-> ItemAt((p + 1) + k)']
      /\ out' = [k \in 1..(p + 1) |-> ItemAt(k)']
  BY <1>2, QueuedIsThen DEF QueuedLaw
<1>8. /\ \A k \in 1..(e - p) : p + k \in 1..e
      /\ \A k \in 1..(e - (p + 1)) : (p + 1) + k \in 1..e /\ k + 1 \in 1..(e - p)
                                     /\ p + (k + 1) = (p + 1) + k
      /\ \A k \in 1..(p + 1) : k \in 1..e
      /\ \A k \in 1..p : k \in 1..e
  BY <1>1, <1>2
<1>9. /\ q = [k \in 1..(e - p) |-> I[p + k]] /\ out = [k \in 1..p |-> I[k]]
      /\ Queued' = [k \in 1..(e - (p + 1)) |-> I[(p + 1) + k]]
      /\ out' = [k \in 1..(p + 1) |-> I[k]]
      /\ \A k \in 1..e : I[k] \in 1..MaxEnqueues
  BY <1>5, <1>6, <1>7, <1>8
<1>10. q \in Seq(1..MaxEnqueues) /\ Len(q) = e - p /\ q # <<>> /\ Head(q) = I[p + 1]
  <2>1. q \in Seq(1..MaxEnqueues) /\ Len(q) = e - p
    BY <1>1, <1>8, <1>9
  <2>2. 1 \in 1..(e - p)
    BY <1>1, <1>2
  <2>3. q[1] = I[p + 1]
    BY <1>9, <2>2
  <2>4. q # <<>> /\ Head(q) = q[1]
    BY <2>1, <2>2
  <2> QED
    BY <2>1, <2>3, <2>4
<1>11. Queued' = Tail(q)
  <2>1. PICK g : g = Tail(q)
    OBVIOUS
  <2>2. /\ g \in Seq(1..MaxEnqueues) /\ Len(g) = e - (p + 1)
        /\ \A k \in 1..(e - (p + 1)) : g[k] = q[k + 1]
    <3>1. (e - p) - 1 = e - (p + 1)
      OBVIOUS
    <3>2. /\ g \in Seq(1..MaxEnqueues) /\ Len(g) = (e - p) - 1
          /\ \A k \in 1..Len(g) : g[k] = q[k + 1]
      BY <1>10, <2>1, HeadTailProperties
    <3> QED
      BY <3>1, <3>2
  <2>3. g = [k \in 1..(e - (p + 1)) |-> g[k]]
    BY <2>2, LenProperties
  <2>4. \A k \in 1..(e - (p + 1)) : g[k] = I[(p + 1) + k]
    BY <1>8, <1>9, <2>2
  <2>5. [k \in 1..(e - (p + 1)) |-> g[k]] = [k \in 1..(e - (p + 1)) |-> I[(p + 1) + k]]
    BY <2>4
  <2> QED
    BY <1>9, <2>1, <2>3, <2>5
<1>12. out' = Append(out, I[p + 1])
  <2>1. out \in Seq(1..MaxEnqueues) /\ Len(out) = p
    BY <1>1, <1>8, <1>9
  <2>2. PICK g : g = Append(out, I[p + 1])
    OBVIOUS
  <2>3. I[p + 1] \in 1..MaxEnqueues
    <3>1. p + 1 \in 1..e
      BY <1>2
    <3> QED
      BY <1>9, <3>1
  <2>4. /\ g \in Seq(1..MaxEnqueues) /\ Len(g) = p + 1
        /\ \A k \in 1..p : g[k] = I[k]
        /\ g[p + 1] = I[p + 1]
    BY <1>9, <2>1, <2>2, <2>3, AppendProperties
  <2>5. g = [k \in 1..(p + 1) |-> g[k]]
    BY <2>4, LenProperties
  <2>6. \A k \in 1..(p + 1) : k = p + 1 \/ k \in 1..p
    OBVIOUS
  <2>7. \A k \in 1..(p + 1) : g[k] = I[k]
    BY <2>4, <2>6
  <2>8. [k \in 1..(p + 1) |-> g[k]] = [k \in 1..(p + 1) |-> I[k]]
    BY <2>7
  <2> QED
    BY <1>9, <2>2, <2>5, <2>8
<1> QED
  BY <1>3, <1>10, <1>11, <1>12 DEF Abstract!Dequeue

(* Other steps leave the abstract queue alone.                             *)
LEMMA RestRefines ==
  ASSUME MSInv, MSInv', Grows, HeadPos' = HeadPos, End' = End
  PROVE  Queued' = Queued /\ out' = out
<1>1. PICK p \in Nat, e \in Nat : p = HeadPos /\ e = End /\ p <= e
  BY Positions
<1>2. HeadPos' = p /\ End' = e
  BY <1>1
<1>3. Queued = [k \in 1..(e - p) |-> ItemAt(p + k)] /\ out = [k \in 1..p |-> ItemAt(k)]
  BY <1>1, QueuedIs DEF QueuedLaw
<1>4. Queued' = [k \in 1..(e - p) |-> ItemAt(p + k)'] /\ out' = [k \in 1..p |-> ItemAt(k)']
  BY <1>2, QueuedIsThen DEF QueuedLaw
<1>5. (\A k \in 1..(e - p) : p + k \in 0..End) /\ \A k \in 1..p : k \in 0..End
  BY <1>1
<1>6. (\A k \in 1..(e - p) : ItemAt(p + k)' = ItemAt(p + k)) /\ \A k \in 1..p : ItemAt(k)' = ItemAt(k)
  BY <1>5, Stable
<1> QED
  BY <1>3, <1>4, <1>6

(* First in, first out, each item once.                                    *)
THEOREM MSRefinement == CountsFit => (MSSpec => ImplementsQueue)
<1> SUFFICES ASSUME CountsFit PROVE MSSpec => ImplementsQueue
  OBVIOUS
<1>1. ASSUME MSInit
      PROVE  Abstract!Init
  <2>1. MSInv /\ out = <<>>
    BY <1>1, MSInitial DEF MSInit
  <2>2. HeadPos = 0 /\ End = 0
    BY <1>1, InitEnds
  <2>3. Queued = <<>>
    BY <2>1, <2>2, QueuedIs DEF QueuedLaw
  <2> QED
    BY <2>1, <2>3 DEF Abstract!Init
<1>2. MSInv /\ [MSNext]_msVars => MSInv' /\ Moves
  BY MSStep
<1>3. ASSUME MSInv, MSInv', Moves
      PROVE  [Abstract!Enqueue \/ Abstract!Dequeue]_<<Queued, out>>
  BY <1>3, EnqueueRefines, DequeueRefines, RestRefines DEF Moves
<1>4. MSInv /\ [MSNext]_msVars => [Abstract!Enqueue \/ Abstract!Dequeue]_<<Queued, out>>
  BY <1>2, <1>3
<1> QED
  BY <1>1, <1>4, MSInvariance, PTL DEF MSSpec, ImplementsQueue, Abstract!Spec

-----------------------------------------------------------------------------
(* A node has one place at most: reclaim() never frees a node that is in   *)
(* use or free, whatever the size of the free lists.                       *)
NoTwoPlaces == \A n \in Node : Cardinality(Places(n)) <= 1

LEMMA PlacesApart ==
  ASSUME MSInv, NEW n \in Node, NEW x \in Places(n), NEW y \in Places(n)
  PROVE  x = y
<1>1. PICK p \in Nat, d \in Nat : p = HeadPos /\ d = End - HeadPos /\ End = p + d
  BY Positions
<1>2. n # null
  BY IndexAssumption
<1> DEFINE A == {<<"list", k>> : k \in {j \in 0..Size : ListNode[j] = n}}
           B == {s \in Thread \X (1..MAX_FREELIST) : free_lists[s[1]][s[2]] = n}
           C == {<<"new", t>> : t \in {u \in Thread : loc[u].node = n /\ pc[u] # "swingTail"}}
<1>3. Places(n) = A \cup B \cup C
  BY DEF Places
<1>4. ASSUME NEW a \in A
      PROVE  \E k \in 0..d : a = <<"list", k>> /\ NodeAt(p + k) = n /\ p + k \in HeadPos..End
  <2>1. PICK k \in 0..Size : a = <<"list", k>> /\ ListNode[k] = n
    OBVIOUS
  <2>2. k \in 0..d /\ NodeAt(p + k) = n
    BY <1>1, <2>1, ListIs DEF ListLaw
  <2>3. p + k \in HeadPos..End
    BY <1>1, <2>2
  <2> QED
    BY <2>1, <2>2, <2>3
<1>5. ASSUME NEW b \in B
      PROVE  \E t \in Thread, i \in 1..MAX_FREELIST :
               b = <<t, i>> /\ free_lists[t][i] = n /\ Holds(t, n)
  <2>1. PICK t \in Thread, i \in 1..MAX_FREELIST : b = <<t, i>>
    OBVIOUS
  <2>2. free_lists[t][i] = n
    BY <2>1
  <2> QED
    BY <2>1, <2>2 DEF Holds
<1>6. ASSUME NEW c \in C
      PROVE  \E t \in Thread :
               c = <<"new", t>> /\ loc[t].node = n /\ pc[t] \in MakingLabel /\ Holds(t, n)
  <2>1. PICK t \in Thread : c = <<"new", t>> /\ loc[t].node = n /\ pc[t] # "swingTail"
    OBVIOUS
  <2>2. pc[t] \in MakingLabel
    BY <1>2, <2>1 DEF MSInv, Apart, EnqueueLabel
  <2> QED
    BY <2>1, <2>2 DEF Holds
<1>7. ASSUME NEW a \in A
      PROVE  InList(n)
  BY <1>4, <1>7 DEF InList
<1>8. ASSUME NEW a \in A, NEW b \in B \cup C
      PROVE  FALSE
  <2>1. \E t \in Thread : Holds(t, n)
    BY <1>5, <1>6, <1>8
  <2> QED
    BY <1>7, <1>8, <2>1 DEF MSInv, Apart
<1>9. ASSUME NEW a \in A, NEW b \in A
      PROVE  a = b
  <2>1. PICK k \in 0..d : a = <<"list", k>> /\ NodeAt(p + k) = n /\ p + k \in HeadPos..End
    BY <1>4
  <2>2. PICK l \in 0..d : b = <<"list", l>> /\ NodeAt(p + l) = n /\ p + l \in HeadPos..End
    BY <1>4
  <2>3. p + k = p + l
    BY <2>1, <2>2 DEF MSInv, Apart
  <2>4. k = l
    BY <2>3
  <2> QED
    BY <2>1, <2>2, <2>4
<1>10. ASSUME NEW a \in B, NEW b \in B
       PROVE  a = b
  <2>1. PICK t \in Thread, i \in 1..MAX_FREELIST :
          a = <<t, i>> /\ free_lists[t][i] = n /\ Holds(t, n)
    BY <1>5
  <2>2. PICK u \in Thread, j \in 1..MAX_FREELIST :
          b = <<u, j>> /\ free_lists[u][j] = n /\ Holds(u, n)
    BY <1>5
  <2>3. t = u
    BY <2>1, <2>2 DEF MSInv, Apart
  <2>4. i = j
    BY <1>2, <2>1, <2>2, <2>3 DEF MSInv, Apart
  <2> QED
    BY <2>1, <2>2, <2>3, <2>4
<1>11. ASSUME NEW a \in B, NEW b \in C
       PROVE  FALSE
  <2>1. PICK t \in Thread, i \in 1..MAX_FREELIST : free_lists[t][i] = n /\ Holds(t, n)
    BY <1>5, <1>11
  <2>2. PICK u \in Thread : loc[u].node = n /\ pc[u] \in MakingLabel /\ Holds(u, n)
    BY <1>6, <1>11
  <2>3. t = u
    BY <2>1, <2>2 DEF MSInv, Apart
  <2> QED
    BY <2>1, <2>2, <2>3 DEF MSInv, Apart
<1>12. ASSUME NEW a \in C, NEW b \in C
       PROVE  a = b
  <2>1. PICK t \in Thread : a = <<"new", t>> /\ Holds(t, n)
    BY <1>6
  <2>2. PICK u \in Thread : b = <<"new", u>> /\ Holds(u, n)
    BY <1>6
  <2>3. t = u
    BY <2>1, <2>2 DEF MSInv, Apart
  <2> QED
    BY <2>1, <2>2, <2>3
<1> HIDE DEF A, B, C
<1> QED
  BY <1>3, <1>8, <1>9, <1>10, <1>11, <1>12

(* No node is lost either, unless a full free list drops it.               *)
Kept == \A n \in Node : InList(n) \/ \E t \in Thread : Holds(t, n)

LEMMA PlacesExist ==
  ASSUME MSInv, NEW n \in Node, InList(n) \/ \E t \in Thread : Holds(t, n)
  PROVE  Places(n) # {}
<1>1. PICK p \in Nat, d \in Nat : p = HeadPos /\ d = End - HeadPos /\ End = p + d
  BY Positions
<1>2. CASE InList(n)
  <2>1. PICK k \in HeadPos..End : NodeAt(k) = n
    BY <1>2 DEF InList
  <2>2. PICK j \in 0..d : k = p + j
    <3>1. k - p \in 0..d /\ k = p + (k - p)
      BY <1>1
    <3> QED
      BY <3>1
  <2>3. j \in 0..Size /\ ListNode[j] = n
    BY <1>1, <2>1, <2>2, ListIs DEF ListLaw
  <2>4. <<"list", j>> \in Places(n)
    BY <2>3 DEF Places
  <2> QED
    BY <2>4
<1>3. ASSUME NEW t \in Thread, Holds(t, n)
      PROVE  Places(n) # {}
  <2>1. CASE loc[t].node = n /\ pc[t] \in MakingLabel
    <3>1. pc[t] # "swingTail"
      BY <2>1 DEF MakingLabel
    <3>2. <<"new", t>> \in Places(n)
      BY <2>1, <3>1 DEF Places
    <3> QED
      BY <3>2
  <2>2. ASSUME NEW i \in 1..MAX_FREELIST, free_lists[t][i] = n
        PROVE  Places(n) # {}
    <3>1. <<t, i>> \in Thread \X (1..MAX_FREELIST) /\ <<t, i>>[1] = t /\ <<t, i>>[2] = i
      OBVIOUS
    <3>2. <<t, i>> \in Places(n)
      BY <2>2, <3>1 DEF Places
    <3> QED
      BY <3>2
  <2> QED
    BY <1>3, <2>1, <2>2 DEF Holds
<1> QED
  BY <1>2, <1>3

LEMMA PlacesCounted ==
  ASSUME MSInv
  PROVE  NoTwoPlaces /\ (Kept => NodeInOnePlace)
<1>1. ASSUME NEW n \in Node
      PROVE  /\ Places(n) = {} => Cardinality(Places(n)) = 0
             /\ Places(n) # {} => Cardinality(Places(n)) = 1
  <2>1. CASE Places(n) = {}
    BY <2>1, FS_EmptySet
  <2>2. CASE Places(n) # {}
    <3>1. PICK x : x \in Places(n)
      BY <2>2
    <3>2. Places(n) = {x}
      BY <3>1, PlacesApart
    <3>3. Cardinality({x}) = 1
      BY FS_Singleton
    <3> QED
      BY <2>2, <3>2, <3>3
  <2> QED
    BY <2>1, <2>2
<1>2. NoTwoPlaces
  <2>1. ASSUME NEW n \in Node
        PROVE  Cardinality(Places(n)) <= 1
    <3>1. Cardinality(Places(n)) = 0 \/ Cardinality(Places(n)) = 1
      BY <1>1
    <3> QED
      BY <3>1
  <2> QED
    BY <2>1 DEF NoTwoPlaces
<1>3. Kept => NodeInOnePlace
  BY <1>1, PlacesExist DEF Kept, NodeInOnePlace
<1> QED
  BY <1>2, <1>3

(* No node is ever in two places.                                          *)
THEOREM NodesApart == CountsFit => (MSSpec => []NoTwoPlaces)
<1>1. MSInv => NoTwoPlaces
  BY PlacesCounted
<1> QED
  BY <1>1, MSInvariance, PTL

-----------------------------------------------------------------------------
(* Head moves with the dequeue() that returns an item, and with no other.  *)
LEMMA HeadStays ==
  ASSUME MSInv, MSInv', out' = out
  PROVE  HeadPos' = HeadPos
<1>1. PICK p \in Nat, q \in Nat : p = HeadPos /\ q = HeadPos'
  <2>1. HeadPos \in Nat
    BY QueuedIs DEF QueuedLaw
  <2>2. HeadPos' \in Nat
    BY QueuedIsThen DEF QueuedLaw
  <2> QED
    BY <2>1, <2>2
<1>2. DOMAIN out = 1..p
  BY <1>1, QueuedIs DEF QueuedLaw
<1>3. DOMAIN out' = 1..q
  BY <1>1, QueuedIsThen DEF QueuedLaw
<1>4. 1..p = 1..q
  BY <1>2, <1>3
<1>5. p = q
  <2>1. p > 0 => p \in 1..p
    OBVIOUS
  <2>2. q > 0 => q \in 1..q
    OBVIOUS
  <2> QED
    BY <1>4, <2>1, <2>2
<1> QED
  BY <1>1, <1>5

(* A step of t that leaves the free lists and head alone, and the node     *)
(* that t makes with t.                                                    *)
HandsStay(t) ==
  /\ free_lists' = free_lists /\ out' = out
  /\ \A u \in Thread \ {t} : pc'[u] = pc[u] /\ loc'[u].node = loc[u].node
  /\ pc[t] \in MakingLabel => pc'[t] \in MakingLabel /\ loc'[t].node = loc[t].node

LEMMA SetOther ==
  ASSUME MSInv, NEW t \in Thread, NEW f, NEW v, Set(t, f, v),
         f \in {"tmp", "head", "tail", "next", "val"}
  PROVE  \A u \in Thread : loc'[u].node = loc[u].node
<1>1. loc \in [Thread -> Local] /\ loc' = [loc EXCEPT ![t] = [loc[t] EXCEPT ![f] = v]]
  BY DEF MSInv, MSTypes, Set
<1>2. PICK l : l = [loc[t] EXCEPT ![f] = v]
  OBVIOUS
<1>3. loc[t] \in Local
  BY <1>1
<1>4. l.node = loc[t].node
  BY <1>2, <1>3 DEF Local
<1>5. loc' = [loc EXCEPT ![t] = l]
  BY <1>1, <1>2
<1> QED
  BY <1>1, <1>4, <1>5

LEMMA Movement ==
  ASSUME MSInv, NEW t \in Thread, NEW to, MoveTo(t, to)
  PROVE  pc'[t] = to /\ \A u \in Thread \ {t} : pc'[u] = pc[u]
BY DEF MSInv, MSTypes, MoveTo

LEMMA EnqueueHands ==
  ASSUME MSInv, NEW t \in Thread,
         \/ Enqueue_LoadOwnNext(t) \/ Enqueue_StoreOwnNext(t)
         \/ Enqueue_LoadTail(t) \/ Enqueue_LoadNext(t) \/ Enqueue_RecheckTail(t)
         \/ Enqueue_LinkFails(t) \/ Enqueue_HelpLoadNext(t)
         \/ Enqueue_HelpTail(t) \/ Enqueue_SwingTail(t)
  PROVE  HandsStay(t)
<1>1. ASSUME NEW to, MoveTo(t, to), to \in MakingLabel, free_lists' = free_lists, out' = out,
             \A u \in Thread : loc'[u].node = loc[u].node
      PROVE  HandsStay(t)
  BY <1>1, Movement DEF HandsStay
<1>2. /\ "loadOwn" \in MakingLabel /\ "initNext" \in MakingLabel /\ "loadTail" \in MakingLabel
      /\ "loadNext" \in MakingLabel /\ "recheckTail" \in MakingLabel /\ "link" \in MakingLabel
      /\ "helpNext" \in MakingLabel /\ "helpTail" \in MakingLabel
      /\ "swingTail" \notin MakingLabel
  BY DEF MakingLabel
<1>3. CASE Enqueue_LoadOwnNext(t)
  <2>1. MoveTo(t, "initNext") /\ free_lists' = free_lists /\ out' = out
    BY <1>3 DEF Enqueue_LoadOwnNext, Goto, MoveTo
  <2>2. PICK v : Set(t, "tmp", v)
    BY <1>3 DEF Enqueue_LoadOwnNext, LoadInto
  <2> QED
    BY <1>1, <1>2, <2>1, <2>2, SetOther
<1>4. CASE Enqueue_StoreOwnNext(t)
  <2>1. MoveTo(t, "loadTail") /\ free_lists' = free_lists /\ out' = out
    BY <1>4 DEF Enqueue_StoreOwnNext, Goto, MoveTo
  <2>2. PICK v : Set(t, "tmp", v)
    BY <1>4 DEF Enqueue_StoreOwnNext
  <2> QED
    BY <1>1, <1>2, <2>1, <2>2, SetOther
<1>5. CASE Enqueue_LoadTail(t)
  <2>1. MoveTo(t, "loadNext") /\ free_lists' = free_lists /\ out' = out
    BY <1>5 DEF Enqueue_LoadTail, Goto, MoveTo
  <2>2. PICK v : Set(t, "tail", v)
    BY <1>5 DEF Enqueue_LoadTail, LoadInto
  <2> QED
    BY <1>1, <1>2, <2>1, <2>2, SetOther
<1>6. CASE Enqueue_LoadNext(t)
  <2>1. MoveTo(t, "recheckTail") /\ free_lists' = free_lists /\ out' = out
    BY <1>6 DEF Enqueue_LoadNext, Goto, MoveTo
  <2>2. PICK v : Set(t, "next", v)
    BY <1>6 DEF Enqueue_LoadNext, LoadInto
  <2> QED
    BY <1>1, <1>2, <2>1, <2>2, SetOther
<1>7. CASE Enqueue_RecheckTail(t)
  <2>1. free_lists' = free_lists /\ out' = out /\ loc' = loc
    BY <1>7 DEF Enqueue_RecheckTail
  <2>2. MoveTo(t, "loadTail") \/ MoveTo(t, "link") \/ MoveTo(t, "helpNext")
    BY <1>7 DEF Enqueue_RecheckTail
  <2> QED
    BY <1>1, <1>2, <2>1, <2>2
<1>8. CASE Enqueue_LinkFails(t)
  <2>1. MoveTo(t, "helpNext") /\ free_lists' = free_lists /\ out' = out /\ loc' = loc
    BY <1>8 DEF Enqueue_LinkFails, Goto, MoveTo
  <2> QED
    BY <1>1, <1>2, <2>1
<1>9. CASE Enqueue_HelpLoadNext(t)
  <2>1. MoveTo(t, "helpTail") /\ free_lists' = free_lists /\ out' = out
    BY <1>9 DEF Enqueue_HelpLoadNext, Goto, MoveTo
  <2>2. PICK v : Set(t, "next", v)
    BY <1>9 DEF Enqueue_HelpLoadNext, LoadInto
  <2> QED
    BY <1>1, <1>2, <2>1, <2>2, SetOther
<1>10. CASE Enqueue_HelpTail(t)
  <2>1. MoveTo(t, "loadTail") /\ free_lists' = free_lists /\ out' = out /\ loc' = loc
    BY <1>10 DEF Enqueue_HelpTail, Goto, MoveTo
  <2> QED
    BY <1>1, <1>2, <2>1
<1>11. CASE Enqueue_SwingTail(t)
  <2>1. /\ pc[t] = "swingTail" /\ MoveTo(t, "idle") /\ free_lists' = free_lists /\ out' = out
        /\ loc' = [loc EXCEPT ![t] = NoLocals]
    BY <1>11 DEF Enqueue_SwingTail, Goto, MoveTo
  <2>2. \A u \in Thread \ {t} : loc'[u] = loc[u]
    BY <2>1 DEF MSInv, MSTypes
  <2> QED
    BY <1>2, <2>1, <2>2, Movement DEF HandsStay
<1> QED
  BY <1>3, <1>4, <1>5, <1>6, <1>7, <1>8, <1>9, <1>10, <1>11

LEMMA DequeueHands ==
  ASSUME MSInv, NEW t \in Thread,
         \/ Dequeue_Call(t) \/ Dequeue_LoadHead(t) \/ Dequeue_LoadTail(t) \/ Dequeue_LoadNext(t)
         \/ Dequeue_RecheckHead(t) \/ Dequeue_HelpTail(t) \/ Dequeue_LoadValue(t)
         \/ Dequeue_UnlinkFails(t)
  PROVE  HandsStay(t)
<1>1. free_lists' = free_lists /\ out' = out
  BY DEF Dequeue_Call, Dequeue_LoadHead, Dequeue_LoadTail, Dequeue_LoadNext,
         Dequeue_RecheckHead, Dequeue_HelpTail, Dequeue_LoadValue, Dequeue_UnlinkFails
<1>2. pc[t] \notin MakingLabel
  BY DEF Dequeue_Call, Dequeue_LoadHead, Dequeue_LoadTail, Dequeue_LoadNext,
         Dequeue_RecheckHead, Dequeue_HelpTail, Dequeue_LoadValue, Dequeue_UnlinkFails,
         Goto, MakingLabel
<1>3. \E to : MoveTo(t, to)
  BY DEF Dequeue_Call, Dequeue_LoadHead, Dequeue_LoadTail, Dequeue_LoadNext,
         Dequeue_RecheckHead, Dequeue_HelpTail, Dequeue_LoadValue, Dequeue_UnlinkFails,
         Goto, MoveTo
<1>4. \A u \in Thread \ {t} : pc'[u] = pc[u]
  BY <1>3, Movement
<1>5. \A u \in Thread \ {t} : loc'[u] = loc[u]
  <2>1. \/ loc' = loc
        \/ \E v : loc' = [loc EXCEPT ![t] = v]
    BY DEF Dequeue_Call, Dequeue_LoadHead, Dequeue_LoadTail, Dequeue_LoadNext,
           Dequeue_RecheckHead, Dequeue_HelpTail, Dequeue_LoadValue, Dequeue_UnlinkFails,
           LoadInto, Set
  <2> QED
    BY <2>1 DEF MSInv, MSTypes
<1> QED
  BY <1>1, <1>2, <1>4, <1>5 DEF HandsStay

-----------------------------------------------------------------------------
(* Nodes stay in the list while head does, and in the hands they are in.   *)
LEMMA ListKept ==
  ASSUME MSInv, Grows, HeadPos' = HeadPos, NEW m, InList(m)
  PROVE  InList(m)'
<1>1. HeadPos \in Nat /\ End \in Nat /\ End' \in Nat /\ End <= End'
  BY Positions DEF Grows
<1>2. PICK k \in HeadPos..End : NodeAt(k) = m
  BY DEF InList
<1>3. k \in 0..End /\ k \in HeadPos'..End'
  BY <1>1
<1>4. NodeAt(k)' = m
  BY <1>2, <1>3 DEF Grows
<1> QED
  BY <1>3, <1>4 DEF InList

LEMMA HandsKeep ==
  ASSUME MSInv, MSInv', Moves, Kept, NEW t \in Thread, HandsStay(t)
  PROVE  Kept'
<1>1. HeadPos' = HeadPos /\ Grows
  BY HeadStays DEF HandsStay, Moves
<1>2. ASSUME NEW m \in Node, NEW u \in Thread, Holds(u, m)
      PROVE  Holds(u, m)'
  BY <1>2 DEF Holds, HandsStay
<1>3. \A m \in Node : InList(m) => InList(m)'
  BY <1>1, ListKept
<1> QED
  BY <1>2, <1>3 DEF Kept

(* The node of t is linked.                                                *)
LEMMA LinkKeeps ==
  ASSUME MSInv, MSInv', Moves, CountsFit, Kept, NEW t \in Thread, Enqueue_Link(t)
  PROVE  Kept'
<1>1. /\ MoveTo(t, "swingTail") /\ free_lists' = free_lists /\ out' = out /\ loc' = loc
  BY DEF Enqueue_Link, Goto, MoveTo
<1>2. HeadPos' = HeadPos /\ Grows
  BY <1>1, HeadStays DEF Moves
<1>3. pc'[t] = "swingTail" /\ \A u \in Thread \ {t} : pc'[u] = pc[u]
  BY <1>1, Movement
<1>4. PICK n \in Node, e \in Nat, p \in Nat :
        n = loc[t].node /\ e = End /\ p = HeadPos /\ p <= e /\ loc[t].tail.count = e
  <2>1. loc[t].tail = Position(End) /\ loc[t].node \in Node
    BY LinkFacts
  <2>2. HeadPos \in Nat /\ End \in Nat /\ HeadPos <= End
    BY QueuedIs DEF QueuedLaw
  <2>3. Position(End).count = End
    BY DEF Position
  <2> QED
    BY <2>1, <2>2, <2>3
<1>5. InList(n)'
  <2>1. PICK q \in 0..TailPos' : TailRead(t, q)'
    BY <1>3 DEF MSInv, Reading, Locals, TailLabel
  <2>2. loc'[t].tail = Position(q)' /\ q < End' /\ loc'[t].node = NodeAt(q + 1)'
    BY <1>3, <2>1 DEF TailRead
  <2>3. q = e
    BY <1>1, <1>4, <2>2 DEF Position
  <2>4. End' \in Nat /\ HeadPos' = p
    BY <1>2, <1>4 DEF Grows
  <2>5. q + 1 \in HeadPos'..End'
    BY <1>4, <2>2, <2>3, <2>4
  <2>6. NodeAt(q + 1)' = n
    BY <1>1, <1>4, <2>2
  <2> QED
    BY <2>5, <2>6 DEF InList
<1>6. ASSUME NEW m \in Node, m # n, NEW u \in Thread, Holds(u, m)
      PROVE  Holds(u, m)'
  BY <1>1, <1>3, <1>4, <1>6 DEF Holds
<1>7. \A m \in Node : InList(m) => InList(m)'
  BY <1>2, ListKept
<1> QED
  BY <1>5, <1>6, <1>7 DEF Kept

(* The node that t takes from its free list is in its hands.               *)
LEMMA StoreValueKeeps ==
  ASSUME MSInv, MSInv', Moves, Kept, NEW t \in Thread, Enqueue_StoreValue(t)
  PROVE  Kept'
<1>1. pc[t] = "idle" /\ MoveTo(t, "loadOwn") /\ out' = out
  BY DEF Enqueue_StoreValue, Goto, MoveTo
<1>2. HeadPos' = HeadPos /\ Grows
  BY <1>1, HeadStays DEF Moves
<1>3. pc'[t] = "loadOwn" /\ \A u \in Thread \ {t} : pc'[u] = pc[u]
  BY <1>1, Movement
<1>4. PICK i \in 1..MAX_FREELIST, n \in Node :
        /\ n = free_lists[t][i] /\ Set(t, "node", n)
        /\ free_lists' = [free_lists EXCEPT ![t] = [@ EXCEPT ![i] = null]]
  BY FirstSlotFound DEF Enqueue_StoreValue, NewNode
<1>5. loc'[t].node = n /\ \A u \in Thread \ {t} : loc'[u] = loc[u]
  BY <1>4, SetLocal
<1>6. /\ \A u \in Thread \ {t} : free_lists'[u] = free_lists[u]
      /\ \A j \in 1..MAX_FREELIST : j # i => free_lists'[t][j] = free_lists[t][j]
  BY <1>4 DEF MSInv, MSTypes
<1>7. Holds(t, n)'
  BY <1>3, <1>5 DEF Holds, MakingLabel
<1>8. ASSUME NEW m \in Node, m # n, NEW u \in Thread, Holds(u, m)
      PROVE  Holds(u, m)'
  <2>1. CASE u = t
    <3>1. pc[t] \notin MakingLabel
      BY <1>1 DEF MakingLabel
    <3>2. PICK j \in 1..MAX_FREELIST : free_lists[t][j] = m
      BY <1>8, <2>1, <3>1 DEF Holds
    <3>3. j # i
      BY <1>4, <1>8, <3>2
    <3>4. free_lists'[t][j] = m
      BY <1>6, <3>2, <3>3
    <3> QED
      BY <2>1, <3>4 DEF Holds
  <2>2. CASE u # t
    BY <1>3, <1>5, <1>6, <1>8, <2>2 DEF Holds
  <2> QED
    BY <2>1, <2>2
<1>9. \A m \in Node : InList(m) => InList(m)'
  BY <1>2, ListKept
<1> QED
  BY <1>7, <1>8, <1>9 DEF Kept

(* Head moves on by one node.                                              *)
LEMMA HeadMoves ==
  ASSUME MSInv, MSInv', Moves, NEW t \in Thread, Dequeue_Unlink(t)
  PROVE  /\ HeadPos' = HeadPos + 1 /\ End' = End /\ HeadPos < End
         /\ loc[t].head.ptr = NodeAt(HeadPos)
<1>1. pc[t] = "unlink" /\ out' = Append(out, loc[t].val)
  BY DEF Dequeue_Unlink, Goto
<1>2. PICK p \in Nat, q \in Nat, e \in Nat, f \in Nat :
        p = HeadPos /\ q = HeadPos' /\ e = End /\ f = End' /\ p <= e /\ q <= f
  <2>1. HeadPos \in Nat /\ End \in Nat /\ HeadPos <= End
    BY QueuedIs DEF QueuedLaw
  <2>2. HeadPos' \in Nat /\ End' \in Nat /\ HeadPos' <= End'
    BY QueuedIsThen DEF QueuedLaw
  <2> QED
    BY <2>1, <2>2
<1>3. PICK h \in 0..HeadPos : loc[t].head = Position(h)
  BY <1>1 DEF MSInv, Reading, Locals, HeadLabel, HeadRead
<1>4. h = HeadPos
  BY <1>3, UnlinkFacts
<1>5. q = p + 1
  <2>1. PICK v \in Nat : v = loc[t].val
    BY DEF MSInv, MSTypes, Local
  <2>2. out \in Seq(Nat) /\ Len(out) = p
    <3>1. out = [k \in 1..p |-> ItemAt(k)] /\ \A k \in 1..e : ItemAt(k) \in 1..MaxEnqueues
      BY <1>2, QueuedIs DEF QueuedLaw
    <3>2. \A k \in 1..p : ItemAt(k) \in Nat
      BY <1>2, <3>1
    <3> QED
      BY <3>1, <3>2
  <2>3. Len(out') = p + 1
    BY <1>1, <2>1, <2>2, AppendProperties
  <2>4. out' = [k \in 1..q |-> ItemAt(k)']
    BY <1>2, QueuedIsThen DEF QueuedLaw
  <2>5. Len(out') = q
    BY <2>4
  <2> QED
    BY <2>3, <2>5
<1>6. f = e
  BY <1>2, <1>5 DEF Moves
<1>7. p < e
  BY <1>2, <1>5, <1>6
<1> QED
  BY <1>2, <1>3, <1>4, <1>5, <1>6, <1>7 DEF Position

(* The node that leaves the list goes to t, who has a slot for it.         *)
LEMMA UnlinkKeeps ==
  ASSUME MSInv, MSInv', Moves, Kept, NEW t \in Thread, Dequeue_Unlink(t),
         FirstSlot(t, {null}) # 0
  PROVE  Kept'
<1>1. /\ pc[t] = "unlink" /\ MoveTo(t, "idle") /\ Reclaim(t, loc[t].head.ptr)
      /\ loc' = [loc EXCEPT ![t] = NoLocals]
  BY DEF Dequeue_Unlink, Goto, MoveTo
<1>2. PICK p \in Nat, e \in Nat, n \in Node :
        /\ p = HeadPos /\ e = End /\ p < e /\ HeadPos' = p + 1 /\ End' = e
        /\ n = NodeAt(p) /\ n = loc[t].head.ptr
  <2>1. /\ HeadPos \in Nat /\ End \in Nat /\ HeadPos \in 0..End
        /\ \A k \in 0..End : NodeAt(k) \in Node
    BY HeadMoves, Positions
  <2> QED
    BY <2>1, HeadMoves
<1>3. \A u \in Thread \ {t} : pc'[u] = pc[u] /\ loc'[u] = loc[u]
  BY <1>1, Movement DEF MSInv, MSTypes
<1>4. PICK i \in 1..MAX_FREELIST :
        /\ free_lists[t][i] = null
        /\ free_lists' = [free_lists EXCEPT ![t] = [@ EXCEPT ![i] = n]]
  <2>1. PICK i : i = FirstSlot(t, {null})
    OBVIOUS
  <2>2. i # 0 /\ i \in 1..MAX_FREELIST /\ free_lists[t][i] = null
    BY <2>1, FirstSlotFound
  <2>3. free_lists' = [free_lists EXCEPT ![t] = [@ EXCEPT ![i] = n]]
    BY <1>1, <1>2, <2>1, <2>2 DEF Reclaim
  <2> QED
    BY <2>2, <2>3
<1>5. /\ free_lists'[t][i] = n
      /\ \A u \in Thread \ {t} : free_lists'[u] = free_lists[u]
      /\ \A j \in 1..MAX_FREELIST : j # i => free_lists'[t][j] = free_lists[t][j]
  BY <1>4 DEF MSInv, MSTypes
<1>6. Holds(t, n)'
  BY <1>5 DEF Holds
<1>7. ASSUME NEW m \in Node, NEW u \in Thread, Holds(u, m)
      PROVE  Holds(u, m)'
  <2>1. CASE u = t
    <3>1. pc[t] \notin MakingLabel
      BY <1>1 DEF MakingLabel
    <3>2. PICK j \in 1..MAX_FREELIST : free_lists[t][j] = m
      BY <1>7, <2>1, <3>1 DEF Holds
    <3>3. j # i
      BY <1>4, <3>2, IndexAssumption
    <3>4. free_lists'[t][j] = m
      BY <1>5, <3>2, <3>3
    <3> QED
      BY <2>1, <3>4 DEF Holds
  <2>2. CASE u # t
    BY <1>3, <1>5, <1>7, <2>2 DEF Holds
  <2> QED
    BY <2>1, <2>2
<1>8. ASSUME NEW m \in Node, InList(m), m # n
      PROVE  InList(m)'
  <2>1. PICK k \in HeadPos..End : NodeAt(k) = m
    BY <1>8 DEF InList
  <2>2. k # p /\ k \in 0..End /\ k \in (p + 1)..e
    <3>1. NodeAt(k) # NodeAt(p)
      BY <1>2, <1>8, <2>1
    <3>2. k # p
      BY <3>1
    <3>3. k \in p..e
      BY <1>2
    <3> QED
      BY <1>2, <3>2, <3>3
  <2>3. NodeAt(k)' = m
    BY <2>1, <2>2 DEF Moves, Grows
  <2> QED
    BY <1>2, <2>2, <2>3 DEF InList
<1> QED
  BY <1>6, <1>7, <1>8 DEF Kept

-----------------------------------------------------------------------------
(* Either the free list of one thread can hold all nodes but those of the  *)
(* list, or nobody dequeues often enough to fill his.                      *)
FreeListsSuffice ==
  \/ Cardinality(Node) <= MAX_FREELIST + 1
  \/ INITIAL_FREE + MaxDequeues <= MAX_FREELIST

(* A full free list and the two nodes at the head of the list are more     *)
(* than all.                                                               *)
LEMMA FullTakesAll ==
  ASSUME MSInv, HeadPos < End, NEW t \in Thread, FirstSlot(t, {null}) = 0
  PROVE  MAX_FREELIST + 2 <= Cardinality(Node)
<1>1. PICK M \in Nat, N \in Nat, p \in Nat : M = MAX_FREELIST /\ N = Cardinality(Node) /\ p = HeadPos
  BY NodesFinite, Positions, MSQueueAssumption
<1>2. PICK a \in Node, b \in Node : a = NodeAt(p) /\ b = NodeAt(p + 1) /\ a # b /\ InList(a) /\ InList(b)
  <2>1. /\ p \in HeadPos..End /\ p + 1 \in HeadPos..End /\ p # p + 1
        /\ p \in 0..End /\ p + 1 \in 0..End
    BY <1>1, Positions
  <2>2. NodeAt(p) # NodeAt(p + 1)
    BY <2>1 DEF MSInv, Apart
  <2> QED
    BY <2>1, <2>2, Positions DEF InList
<1>3. PICK g : g = free_lists[t]
  OBVIOUS
<1>4. ASSUME NEW i \in 1..M
      PROVE  g[i] \in Node /\ g[i] # a /\ g[i] # b
  <2>1. i \in 1..MAX_FREELIST /\ free_lists[t][i] # null
    BY <1>1, FirstSlotFound
  <2>2. free_lists[t][i] \in Node
    BY <2>1 DEF MSInv, MSTypes
  <2>3. Holds(t, free_lists[t][i])
    BY <2>1 DEF Holds
  <2>4. ~InList(free_lists[t][i])
    BY <2>2, <2>3 DEF MSInv, Apart
  <2> QED
    BY <1>2, <1>3, <2>2, <2>4
<1>5. ASSUME NEW i \in 1..M, NEW j \in 1..M, g[i] = g[j]
      PROVE  i = j
  <2>1. g[i] # null
    BY <1>4, IndexAssumption
  <2> QED
    BY <1>1, <1>3, <1>5, <2>1 DEF MSInv, Apart
<1>6. PICK f : f = [k \in 1..(M + 2) |-> IF k <= M THEN g[k] ELSE IF k = M + 1 THEN a ELSE b]
  OBVIOUS
<1>7. /\ \A k \in 1..M : f[k] = g[k]
      /\ f[M + 1] = a /\ f[M + 2] = b
      /\ \A k \in 1..(M + 2) : k \in 1..M \/ k = M + 1 \/ k = M + 2
  BY <1>6
<1>8. f \in [1..(M + 2) -> Node]
  BY <1>2, <1>4, <1>6, <1>7
<1>9. \A j, k \in 1..(M + 2) : f[j] = f[k] => j = k
  BY <1>2, <1>4, <1>5, <1>7
<1>10. f \in Injection(1..(M + 2), Node)
  BY <1>8, <1>9 DEF Injection, IsInjective
<1>11. Cardinality(1..(M + 2)) = M + 2
  <2>1. 1 \in Int /\ M + 2 \in Int
    OBVIOUS
  <2>2. Cardinality(1..(M + 2)) = IF 1 > M + 2 THEN 0 ELSE (M + 2) - 1 + 1
    BY <2>1, FS_Interval
  <2> QED
    BY <2>2
<1> QED
  BY <1>1, <1>10, <1>11, NodesFinite, FS_Injection

(* Each dequeue() that returns an item has been called, and adds one node  *)
(* to one free list.                                                       *)
Dequeuers == {t \in Thread : pc[t] \in {"loadHead"} \cup HeadLabel}
Filled(t) == {i \in 1..MAX_FREELIST : free_lists[t][i] # null}
Filling ==
  /\ HeadPos + Cardinality(Dequeuers) <= dequeues
  /\ \A t \in Thread : Cardinality(Filled(t)) <= INITIAL_FREE + HeadPos

LEMMA FilledFinite ==
  \A t \in Thread : IsFiniteSet(Filled(t)) /\ Cardinality(Filled(t)) \in Nat
<1>1. 1 \in Int /\ MAX_FREELIST \in Int
  BY MSQueueAssumption
<1>2. IsFiniteSet(1..MAX_FREELIST)
  BY <1>1, FS_Interval
<1> QED
  BY <1>2, FS_Subset, FS_CardinalityType DEF Filled

LEMMA FilledFiniteThen == (\A t \in Thread : IsFiniteSet(Filled(t)) /\ Cardinality(Filled(t)) \in Nat)'
BY FilledFinite, PTL

LEMMA DequeuersFinite == IsFiniteSet(Dequeuers) /\ Cardinality(Dequeuers) \in Nat
BY MSQueueAssumption, FS_Subset, FS_CardinalityType DEF Dequeuers

LEMMA DequeuersFiniteThen == (IsFiniteSet(Dequeuers) /\ Cardinality(Dequeuers) \in Nat)'
BY DequeuersFinite, PTL

(* So a node that is dequeued finds a slot.                                *)
LEMMA SlotFound ==
  ASSUME MSInv, MSInv', Moves, Filling, FreeListsSuffice, NEW t \in Thread, Dequeue_Unlink(t)
  PROVE  FirstSlot(t, {null}) # 0
<1> SUFFICES ASSUME FirstSlot(t, {null}) = 0 PROVE FALSE
  OBVIOUS
<1>1. HeadPos < End
  BY HeadMoves
<1>2. MAX_FREELIST + 2 <= Cardinality(Node)
  BY <1>1, FullTakesAll
<1>3. PICK M \in Nat, N \in Nat, p \in Nat, d \in Nat, c \in Nat, F \in Nat :
        /\ M = MAX_FREELIST /\ N = Cardinality(Node) /\ p = HeadPos /\ d = dequeues
        /\ c = Cardinality(Dequeuers) /\ F = INITIAL_FREE
        /\ d <= MaxDequeues /\ MaxDequeues \in Nat
  <2>1. HeadPos \in Nat /\ dequeues \in Nat /\ dequeues <= MaxDequeues /\ MaxDequeues \in Nat
    BY QueuedIs, MSQueueAssumption DEF QueuedLaw, MSInv, MSTypes
  <2>2. MAX_FREELIST \in Nat /\ INITIAL_FREE \in Nat
    BY MSQueueAssumption
  <2> QED
    BY <2>1, <2>2, NodesFinite, DequeuersFinite
<1>4. c >= 1
  <2>1. t \in Dequeuers
    BY DEF Dequeue_Unlink, Goto, Dequeuers, HeadLabel
  <2>2. c # 0
    BY <1>3, <2>1, DequeuersFinite, FS_EmptySet
  <2> QED
    BY <2>2
<1>5. Filled(t) = 1..M
  BY <1>3, FirstSlotFound DEF Filled
<1>6. Cardinality(1..M) = M
  <2>1. 1 \in Int /\ M \in Int
    OBVIOUS
  <2>2. Cardinality(1..M) = IF 1 > M THEN 0 ELSE M - 1 + 1
    BY <2>1, FS_Interval
  <2> QED
    BY <2>2
<1>7. M <= F + p /\ p + c <= d
  BY <1>3, <1>5, <1>6 DEF Filling
<1>8. N <= M + 1 \/ F + MaxDequeues <= M
  BY <1>3 DEF FreeListsSuffice
<1>9. M + 2 <= N
  BY <1>2, <1>3
<1> QED
  BY <1>3, <1>4, <1>7, <1>8, <1>9

(* A step that neither calls dequeue() nor returns an item from it.        *)
LEMMA FillingStays ==
  ASSUME MSInv, MSInv', Filling, NEW t \in Thread, NEW to, MoveTo(t, to),
         to \in {"loadHead"} \cup HeadLabel => pc[t] \in {"loadHead"} \cup HeadLabel,
         dequeues' = dequeues, out' = out,
         \A u \in Thread : Filled(u)' \subseteq Filled(u)
  PROVE  Filling'
<1>1. HeadPos' = HeadPos
  BY HeadStays
<1>2. Dequeuers' \subseteq Dequeuers
  BY Movement DEF Dequeuers
<1>3. Cardinality(Dequeuers') <= Cardinality(Dequeuers)
  BY <1>2, DequeuersFinite, FS_Subset
<1>4. PICK p \in Nat, d \in Nat, c \in Nat, e \in Nat, F \in Nat :
        /\ p = HeadPos /\ d = dequeues /\ c = Cardinality(Dequeuers) /\ e = Cardinality(Dequeuers')
        /\ F = INITIAL_FREE
  <2>1. HeadPos \in Nat /\ dequeues \in Nat /\ INITIAL_FREE \in Nat
    BY QueuedIs, MSQueueAssumption DEF QueuedLaw, MSInv, MSTypes
  <2> QED
    BY <2>1, DequeuersFinite, DequeuersFiniteThen
<1>5. p + c <= d
  BY <1>4 DEF Filling
<1>6. HeadPos' + Cardinality(Dequeuers') <= dequeues'
  <2>1. p + e <= d
    BY <1>3, <1>4, <1>5
  <2> QED
    BY <1>1, <1>4, <2>1
<1>7. ASSUME NEW u \in Thread
      PROVE  Cardinality(Filled(u)') <= INITIAL_FREE + HeadPos'
  <2>1. PICK a \in Nat, b \in Nat : a = Cardinality(Filled(u)) /\ b = Cardinality(Filled(u)')
    BY FilledFinite, FilledFiniteThen
  <2>2. b <= a
    BY <2>1, FilledFinite, FS_Subset
  <2>3. a <= F + p
    BY <1>4, <2>1 DEF Filling
  <2>4. b <= F + p
    BY <2>2, <2>3
  <2> QED
    BY <1>1, <1>4, <2>1, <2>4
<1> QED
  BY <1>6, <1>7 DEF Filling

LEMMA CallFills ==
  ASSUME MSInv, MSInv', Filling, NEW t \in Thread, Dequeue_Call(t)
  PROVE  Filling'
<1>1. /\ pc[t] = "idle" /\ MoveTo(t, "loadHead") /\ dequeues' = dequeues + 1
      /\ out' = out /\ free_lists' = free_lists
  BY DEF Dequeue_Call, Goto, MoveTo
<1>2. HeadPos' = HeadPos
  BY <1>1, HeadStays
<1>3. Dequeuers' = Dequeuers \cup {t} /\ t \notin Dequeuers
  BY <1>1, Movement DEF Dequeuers, HeadLabel
<1>4. Cardinality(Dequeuers') = Cardinality(Dequeuers) + 1
  BY <1>3, DequeuersFinite, FS_AddElement
<1>5. PICK p \in Nat, d \in Nat, c \in Nat :
        p = HeadPos /\ d = dequeues /\ c = Cardinality(Dequeuers)
  <2>1. HeadPos \in Nat /\ dequeues \in Nat
    BY QueuedIs DEF QueuedLaw, MSInv, MSTypes
  <2> QED
    BY <2>1, DequeuersFinite
<1>6. p + c <= d
  BY <1>5 DEF Filling
<1>7. p + (c + 1) <= d + 1
  BY <1>6
<1>8. \A u \in Thread : Filled(u)' = Filled(u)
  BY <1>1 DEF Filled
<1> QED
  BY <1>1, <1>2, <1>4, <1>5, <1>7, <1>8 DEF Filling

LEMMA UnlinkFills ==
  ASSUME MSInv, MSInv', Moves, Filling, NEW t \in Thread, Dequeue_Unlink(t)
  PROVE  Filling'
<1>1. pc[t] = "unlink" /\ MoveTo(t, "idle") /\ dequeues' = dequeues /\ Reclaim(t, loc[t].head.ptr)
  BY DEF Dequeue_Unlink, Goto, MoveTo
<1>2. Dequeuers' = Dequeuers \ {t} /\ t \in Dequeuers
  BY <1>1, Movement DEF Dequeuers, HeadLabel
<1>3. Cardinality(Dequeuers') = Cardinality(Dequeuers) - 1
  BY <1>2, DequeuersFinite, FS_RemoveElement
<1>4. PICK p \in Nat, d \in Nat, c \in Nat, F \in Nat :
        /\ p = HeadPos /\ d = dequeues /\ c = Cardinality(Dequeuers) /\ F = INITIAL_FREE
        /\ HeadPos' = p + 1
  <2>1. HeadPos \in Nat /\ dequeues \in Nat /\ INITIAL_FREE \in Nat
    BY QueuedIs, MSQueueAssumption DEF QueuedLaw, MSInv, MSTypes
  <2> QED
    BY <2>1, DequeuersFinite, HeadMoves
<1>5. p + c <= d
  BY <1>4 DEF Filling
<1>6. (p + 1) + (c - 1) <= d
  BY <1>5
<1>7. PICK i : \A u \in Thread : Filled(u)' \subseteq Filled(u) \cup {i}
  <2>1. PICK i : i = FirstSlot(t, {null})
    OBVIOUS
  <2>2. PICK n : n = loc[t].head.ptr
    OBVIOUS
  <2>3. \/ free_lists' = free_lists
        \/ i \in 1..MAX_FREELIST /\ free_lists' = [free_lists EXCEPT ![t] = [@ EXCEPT ![i] = n]]
    BY <1>1, <2>1, <2>2, FirstSlotFound DEF Reclaim
  <2>4. \A u \in Thread : \A j \in 1..MAX_FREELIST :
          free_lists'[u][j] = free_lists[u][j] \/ j = i
    <3>1. free_lists \in [Thread -> [1..MAX_FREELIST -> Node \cup {null}]]
      BY DEF MSInv, MSTypes
    <3>2. PICK g : g = [free_lists[t] EXCEPT ![i] = n]
      OBVIOUS
    <3>3. \A j \in 1..MAX_FREELIST : g[j] = free_lists[t][j] \/ j = i
      BY <3>1, <3>2
    <3>4. free_lists' = free_lists \/ free_lists' = [free_lists EXCEPT ![t] = g]
      BY <2>3, <3>2
    <3> QED
      BY <3>1, <3>3, <3>4
  <2> QED
    BY <2>4 DEF Filled
<1>8. ASSUME NEW u \in Thread
      PROVE  Cardinality(Filled(u)') <= F + (p + 1)
  <2>1. PICK a \in Nat, b \in Nat : a = Cardinality(Filled(u)) /\ b = Cardinality(Filled(u)')
    BY FilledFinite, FilledFiniteThen
  <2>2. PICK S : S = Filled(u) \cup {i}
    OBVIOUS
  <2>3. IsFiniteSet(S) /\ (Cardinality(S) = a \/ Cardinality(S) = a + 1)
    BY <2>1, <2>2, FilledFinite, FS_AddElement
  <2>4. Filled(u)' \subseteq S
    BY <1>7, <2>2
  <2>5. b <= Cardinality(S)
    BY <2>1, <2>3, <2>4, FS_Subset
  <2>6. a <= F + p
    BY <1>4, <2>1 DEF Filling
  <2>7. b <= F + (p + 1)
    BY <2>3, <2>5, <2>6
  <2> QED
    BY <2>1, <2>7
<1> QED
  BY <1>1, <1>3, <1>4, <1>6, <1>8 DEF Filling

(* Every step fills at most one more slot.                                 *)
LEMMA FillingStep ==
  ASSUME MSInv, MSInv', Moves, Filling, NEW t \in Thread, Enqueue(t) \/ Dequeue(t)
  PROVE  Filling'
<1> DEFINE D == {"loadHead"} \cup HeadLabel
<1>1. CASE Enqueue_StoreValue(t)
  <2>1. MoveTo(t, "loadOwn") /\ dequeues' = dequeues /\ out' = out
    BY <1>1 DEF Enqueue_StoreValue, Goto, MoveTo
  <2>2. PICK i \in 1..MAX_FREELIST : free_lists' = [free_lists EXCEPT ![t] = [@ EXCEPT ![i] = null]]
    BY <1>1, FirstSlotFound DEF Enqueue_StoreValue, NewNode
  <2>3. \A u \in Thread : \A j \in 1..MAX_FREELIST :
          free_lists'[u][j] = free_lists[u][j] \/ free_lists'[u][j] = null
    BY <2>2 DEF MSInv, MSTypes
  <2>4. \A u \in Thread : Filled(u)' \subseteq Filled(u)
    BY <2>3 DEF Filled
  <2>5. "loadOwn" \notin D
    BY DEF HeadLabel
  <2> QED
    BY <2>1, <2>4, <2>5, FillingStays
<1>2. CASE \/ Enqueue_LoadOwnNext(t) \/ Enqueue_StoreOwnNext(t)
           \/ Enqueue_LoadTail(t) \/ Enqueue_LoadNext(t) \/ Enqueue_RecheckTail(t)
           \/ Enqueue_Link(t) \/ Enqueue_LinkFails(t) \/ Enqueue_HelpLoadNext(t)
           \/ Enqueue_HelpTail(t) \/ Enqueue_SwingTail(t)
  <2>1. free_lists' = free_lists /\ dequeues' = dequeues /\ out' = out
    BY <1>2 DEF Enqueue_LoadOwnNext, Enqueue_StoreOwnNext, Enqueue_LoadTail, Enqueue_LoadNext,
       Enqueue_RecheckTail, Enqueue_Link, Enqueue_LinkFails, Enqueue_HelpLoadNext,
       Enqueue_HelpTail, Enqueue_SwingTail
  <2>2. PICK to : MoveTo(t, to) /\ to \notin D
    BY <1>2 DEF Enqueue_LoadOwnNext, Enqueue_StoreOwnNext, Enqueue_LoadTail, Enqueue_LoadNext,
       Enqueue_RecheckTail, Enqueue_Link, Enqueue_LinkFails, Enqueue_HelpLoadNext,
       Enqueue_HelpTail, Enqueue_SwingTail, Goto, MoveTo, HeadLabel
  <2>3. \A u \in Thread : Filled(u)' \subseteq Filled(u)
    BY <2>1 DEF Filled
  <2> QED
    BY <2>1, <2>2, <2>3, FillingStays
<1>3. CASE \/ Dequeue_LoadHead(t) \/ Dequeue_LoadTail(t) \/ Dequeue_LoadNext(t)
           \/ Dequeue_RecheckHead(t) \/ Dequeue_HelpTail(t) \/ Dequeue_LoadValue(t)
           \/ Dequeue_UnlinkFails(t)
  <2>1. free_lists' = free_lists /\ dequeues' = dequeues /\ out' = out /\ pc[t] \in D
    BY <1>3 DEF Dequeue_LoadHead, Dequeue_LoadTail, Dequeue_LoadNext, Dequeue_RecheckHead,
       Dequeue_HelpTail, Dequeue_LoadValue, Dequeue_UnlinkFails, Goto, HeadLabel
  <2>2. PICK to : MoveTo(t, to)
    BY <1>3 DEF Dequeue_LoadHead, Dequeue_LoadTail, Dequeue_LoadNext, Dequeue_RecheckHead,
       Dequeue_HelpTail, Dequeue_LoadValue, Dequeue_UnlinkFails, Goto, MoveTo
  <2>3. \A u \in Thread : Filled(u)' \subseteq Filled(u)
    BY <2>1 DEF Filled
  <2> QED
    BY <2>1, <2>2, <2>3, FillingStays
<1> QED
  BY <1>1, <1>2, <1>3, CallFills, UnlinkFills DEF Enqueue, Dequeue

-----------------------------------------------------------------------------
LEMMA InitKept ==
  ASSUME MSInit
  PROVE  Kept /\ Filling
<1>1. HeadPos = 0 /\ End = 0 /\ MSInv
  BY InitEnds, MSInitial
<1>2. /\ pc = [t \in Thread |-> "idle"] /\ dequeues = 0
      /\ free_lists = [t \in Thread |->
           [i \in 1..MAX_FREELIST |-> IF i <= INITIAL_FREE THEN <<t, i>> ELSE null]]
  BY DEF MSInit
<1>3. INITIAL_FREE \in Nat /\ MAX_FREELIST \in Nat /\ INITIAL_FREE <= MAX_FREELIST
  BY MSQueueAssumption
<1>4. InList(Dummy)
  <2>1. NodeAt(0) = Dummy
    BY <1>1 DEF MSInv, Ends
  <2>2. 0 \in HeadPos..End
    BY <1>1
  <2> QED
    BY <2>1, <2>2 DEF InList
<1>5. ASSUME NEW t \in Thread, NEW i \in 1..INITIAL_FREE
      PROVE  Holds(t, <<t, i>>)
  <2>1. i \in 1..MAX_FREELIST /\ i <= INITIAL_FREE
    BY <1>3
  <2>2. free_lists[t][i] = <<t, i>>
    BY <1>2, <2>1
  <2> QED
    BY <2>1, <2>2 DEF Holds
<1>6. Kept
  <2>1. ASSUME NEW m \in Node
        PROVE  m = Dummy \/ \E t \in Thread, i \in 1..INITIAL_FREE : m = <<t, i>>
    BY DEF Node
  <2> QED
    BY <1>4, <1>5, <2>1 DEF Kept
<1>7. Cardinality(Dequeuers) = 0
  <2>1. Dequeuers = {}
    BY <1>2 DEF Dequeuers, HeadLabel
  <2> QED
    BY <2>1, FS_EmptySet
<1>8. ASSUME NEW t \in Thread
      PROVE  Cardinality(Filled(t)) <= INITIAL_FREE + HeadPos
  <2>1. Filled(t) \subseteq 1..INITIAL_FREE
    BY <1>2, <1>3 DEF Filled
  <2>2. IsFiniteSet(1..INITIAL_FREE) /\ Cardinality(1..INITIAL_FREE) = INITIAL_FREE
    <3>1. 1 \in Int /\ INITIAL_FREE \in Int
      BY <1>3
    <3>2. /\ IsFiniteSet(1..INITIAL_FREE)
          /\ Cardinality(1..INITIAL_FREE) = IF 1 > INITIAL_FREE THEN 0 ELSE INITIAL_FREE - 1 + 1
      BY <3>1, FS_Interval
    <3> QED
      BY <1>3, <3>2
  <2>3. Cardinality(Filled(t)) <= INITIAL_FREE
    BY <2>1, <2>2, FS_Subset
  <2> QED
    BY <1>1, <1>3, <2>3
<1> QED
  BY <1>1, <1>2, <1>6, <1>7, <1>8 DEF Filling

LEMMA KeptStep ==
  ASSUME MSInv, MSInv', Moves, Kept, Filling, CountsFit, FreeListsSuffice, [MSNext]_msVars
  PROVE  Kept' /\ Filling'
<1>1. CASE UNCHANGED msVars
  <2>1. HeadPos' = HeadPos /\ Grows
    BY <1>1, HeadStays DEF msVars, Moves
  <2>2. \A m \in Node : InList(m) => InList(m)'
    BY <2>1, ListKept
  <2>3. \A t \in Thread : \A m \in Node : Holds(t, m)' = Holds(t, m)
    BY <1>1 DEF msVars, Holds
  <2>4. Dequeuers' = Dequeuers /\ dequeues' = dequeues
    BY <1>1 DEF msVars, Dequeuers
  <2>5. \A t \in Thread : Filled(t)' = Filled(t)
    BY <1>1 DEF msVars, Filled
  <2>6. Kept'
    BY <2>2, <2>3 DEF Kept
  <2> QED
    BY <2>1, <2>4, <2>5, <2>6 DEF Filling
<1>2. ASSUME NEW t \in Thread, Enqueue(t)
      PROVE  Kept'
  BY <1>2, EnqueueHands, HandsKeep, LinkKeeps, StoreValueKeeps DEF Enqueue
<1>3. ASSUME NEW t \in Thread, Dequeue(t)
      PROVE  Kept'
  <2>1. CASE Dequeue_Unlink(t)
    BY <2>1, SlotFound, UnlinkKeeps
  <2> QED
    BY <1>3, <2>1, DequeueHands, HandsKeep DEF Dequeue
<1>4. ASSUME NEW t \in Thread, Enqueue(t) \/ Dequeue(t)
      PROVE  Filling'
  BY <1>4, FillingStep
<1>5. CASE MSTerminated
  BY <1>1, <1>5 DEF MSTerminated
<1> QED
  BY <1>1, <1>2, <1>3, <1>4, <1>5 DEF MSNext

(* A node is always in exactly one place: in the list, in a slot of a free *)
(* list or with the enqueue() that makes it, as long as no free list can   *)
(* overflow.                                                               *)
THEOREM NodesKept == CountsFit /\ FreeListsSuffice => (MSSpec => []NodeInOnePlace)
<1> SUFFICES ASSUME CountsFit, FreeListsSuffice PROVE MSSpec => []NodeInOnePlace
  OBVIOUS
<1>1. MSInit => Kept /\ Filling
  BY InitKept
<1>2. MSInv /\ [MSNext]_msVars => MSInv' /\ Moves
  BY MSStep
<1>3. MSInv /\ Kept /\ Filling /\ [MSNext]_msVars => Kept' /\ Filling'
  BY <1>2, KeptStep
<1>4. MSInv /\ Kept => NodeInOnePlace
  BY PlacesCounted
<1> QED
  BY <1>1, <1>3, <1>4, MSInvariance, PTL DEF MSSpec
==============================================================================
