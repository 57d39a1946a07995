--------------------------- MODULE HashMapProofs ---------------------------
(***************************************************************************)
(* Proofs about HashMap, for every set of threads and of keys, any number  *)
(* of buckets and segments, and any sequence of calls.                     *)
(***************************************************************************)
EXTENDS HashMap, C11MemoryProofs, FiniteSetTheorems, WellFoundedInduction

Content == Nat \cup {null, Uninit}
PutLabel == {"putFirst", "putWalk", "putValue", "newEntry", "newValue", "newNext", "publish"}
GetLabel == {"walk", "lock", "recheck", "walkAgain"}
Label == PutLabel \cup GetLabel \cup {"idle", "unlock"}

WalkLabel == {"walk", "walkAgain", "putWalk"}
MakeLabel == {"newValue", "newNext", "publish"}
AbsentLabel == {"newEntry"} \cup MakeLabel

(* A thread holds the mutex of the segment of its key.                     *)
Holds(t) == pc[t] \in PutLabel \cup {"recheck", "walkAgain", "unlock"}
Seg(t) == SegmentOf(key[t])
Home(t) == BucketOf(key[t])

(* The entries of a bucket, in the order they were made, and what a        *)
(* pointer to the last of some entries is.                                 *)
In(b) == {x \in Linked : BucketOf(KeyAt(x)) = b}
IsLast(p, S) == IF p = null THEN S = {} ELSE p \in S /\ \A y \in S : y <= p
Blank(l) == Newest(l) = 1 /\ Val(l, 1) = Uninit

(* The inductive invariant.  Types: of the locals and of the memory.       *)
Locals ==
  /\ pc \in [Thread -> Label]
  /\ key \in [Thread -> Key \cup {0}] /\ value \in [Thread -> Value \cup {0}]
  /\ e \in [Thread -> Entry \cup {null}] /\ first \in [Thread -> Entry \cup {null}]
  /\ old \in [Thread -> Value \cup {0}]
  /\ entries \in Nat /\ puts \in 0..MaxPuts /\ gets \in 0..MaxGets

Types == MemType(Loc, Content) /\ Locals

Chain == \A l \in Loc : Linear(l)

(* Room: there is an entry left for every put() that may make one.         *)
MayMake == {t \in Thread : pc[t] \in {"putFirst", "putWalk", "newEntry"}}
Room ==
  /\ IsFiniteSet(MayMake)
  /\ entries + Cardinality(MayMake) <= MaxBefore + puts

(* Lists: the list of a bucket leads through its entries, the last made    *)
(* first, and a head that has been replaced is still an entry of it.       *)
Lists ==
  /\ Linked \subseteq 1..entries
  /\ \A x \in Linked : KeyAt(x) \in Key
  /\ \A x, y \in Linked : KeyAt(x) = KeyAt(y) => x = y
  /\ \A b \in Bucket : IsLast(Current(Table(b)), In(b))
  /\ \A b \in Bucket : \A i \in 1..Newest(Table(b)) : Val(Table(b), i) \in In(b) \cup {null}
  /\ \A x \in Linked : IsLast(Current(NextOf(x)), {y \in In(BucketOf(KeyAt(x))) : y < x})

(* Values: those of a linked entry have been put, and all but its first    *)
(* are known to the seq_cst operations.                                    *)
Made(x, j) == j = 2 /\ Val(ValueOf(x), 1) = Uninit
Values ==
  /\ \A x \in Linked : \A j \in 1..Newest(ValueOf(x)) :
       Val(ValueOf(x), j) \in Value \/ (j = 1 /\ Val(ValueOf(x), 1) = Uninit)
  /\ \A x \in Linked : Val(ValueOf(x), 1) = Uninit => Newest(ValueOf(x)) >= 2
  /\ \A x \in Linked : \A j \in 2..Newest(ValueOf(x)) : Made(x, j) \/ <<ValueOf(x), j>> \in sc

(* Fresh: the entries that have not been made are untouched.               *)
Fresh ==
  \A x \in Entry : x > entries => Blank(KeyOf(x)) /\ Blank(ValueOf(x)) /\ Blank(NextOf(x))

(* Mutual: the mutex of a segment has one holder.                          *)
Mutual ==
  /\ \A t, u \in Thread : Holds(t) /\ Holds(u) /\ Seg(t) = Seg(u) => t = u
  /\ \A t \in Thread : Holds(t) => Current(Mutex(Seg(t))) # 0

(* Handover: who holds a mutex has seen all that was written in its        *)
(* segment (Held), a mutex that is free passes that on (Passed), and the   *)
(* pointer to an entry passes on what new wrote to it and to the entries   *)
(* after it (Trails).                                                      *)
Knows(t, l) == \A j \in 1..Newest(l) : <<l, j>> \in cur[t]
Carries(view, l) == \A j \in 2..Newest(l) : <<l, j>> \in view
KnowsEntry(view, x) ==
  /\ Carries(view, KeyOf(x)) /\ Carries(view, NextOf(x))
  /\ Val(ValueOf(x), 1) = Uninit => <<ValueOf(x), 2>> \in view
Fields(x) == {KeyOf(x), ValueOf(x), NextOf(x)}
Guarded(s) ==
  {Table(b) : b \in {c \in Bucket : SegmentOf(c) = s}}
    \cup UNION {Fields(x) : x \in {y \in 1..entries : SegmentOf(KeyAt(y)) = s}}
Initials == \A t \in Thread, l \in Loc : <<l, 1>> \in cur[t]
Held ==
  \A t \in Thread : Holds(t) =>
    Knows(t, Mutex(Seg(t))) /\ \A l \in Guarded(Seg(t)) : Knows(t, l)
Passed ==
  \A s \in Segment : Current(Mutex(s)) = 0 =>
    \A l \in Guarded(s) : Carries(hist[Mutex(s)][Newest(Mutex(s))].view, l)
Trails ==
  \A b \in Bucket : \A i \in 1..Newest(Table(b)) : \A y \in In(b) :
    Val(Table(b), i) # null /\ y <= Val(Table(b), i) => KnowsEntry(hist[Table(b)][i].view, y)
Handover == Initials /\ Held /\ Passed /\ Trails

(* Calls: of a thread in a call, its key and value; a walk is at an entry  *)
(* of its bucket and has seen what was written to it and to those after    *)
(* it; what it has passed, and finally the whole list, lacks the key.      *)
CallWell(t) ==
  /\ pc[t] # "idle" => key[t] \in Key
  /\ pc[t] \in PutLabel => value[t] \in Value
WalkWell(t) ==
  pc[t] \in WalkLabel =>
    /\ e[t] \in In(Home(t))
    /\ \A y \in In(Home(t)) : y <= e[t] => KnowsEntry(cur[t], y)
SearchWell(t) ==
  /\ pc[t] \in {"walk", "lock", "recheck"} => first[t] \in In(Home(t)) \cup {null}
  /\ pc[t] = "walk" => first[t] # null
  /\ pc[t] = "walk" =>
       \A y \in In(Home(t)) : e[t] < y /\ y <= first[t] => KeyAt(y) # key[t]
  /\ pc[t] \in {"lock", "recheck"} =>
       e[t] = null /\ \A y \in In(Home(t)) : first[t] # null /\ y <= first[t] => KeyAt(y) # key[t]
  /\ pc[t] \in {"putWalk", "walkAgain"} => \A y \in In(Home(t)) : e[t] < y => KeyAt(y) # key[t]
  /\ pc[t] \in AbsentLabel => \A y \in In(Home(t)) : KeyAt(y) # key[t]
  /\ pc[t] \in {"putWalk"} \cup AbsentLabel => first[t] = Current(First(t))
  /\ pc[t] = "putValue" =>
       e[t] \in Linked /\ KeyAt(e[t]) = key[t] /\ old[t] = Current(ValueOf(e[t]))

(* Makes: the entry a put() makes is its own until it is published.        *)
MakeWell(t) ==
  pc[t] \in MakeLabel =>
    /\ e[t] \in 1..entries /\ e[t] \notin Linked
    /\ KeyAt(e[t]) = key[t] /\ \A y \in In(Home(t)) : y < e[t]
    /\ pc[t] = "newValue" => Blank(ValueOf(e[t]))
    /\ pc[t] # "newValue" => /\ Newest(ValueOf(e[t])) = 2 /\ Val(ValueOf(e[t]), 1) = Uninit
                             /\ Val(ValueOf(e[t]), 2) = value[t]
    /\ pc[t] # "publish" => Blank(NextOf(e[t]))
    /\ pc[t] = "publish" => Current(NextOf(e[t])) = first[t]

Well(t) == CallWell(t) /\ WalkWell(t) /\ SearchWell(t) /\ MakeWell(t)

IInv ==
  /\ Types /\ Chain /\ Room
  /\ Lists /\ Values /\ Fresh
  /\ Mutual /\ Handover
  /\ \A t \in Thread : Well(t)

-----------------------------------------------------------------------------
(* A finite set of numbers has a last element and a first.                 *)
LEMMA LastOf ==
  ASSUME NEW n \in Nat, NEW S \in SUBSET (1..n), S # {}
  PROVE  \E m \in S : \A x \in S : x <= m
<1> DEFINE Above(x) == {y \in S : x <= y}
           F == {Above(x) : x \in S}
           R == StrictSubsetOrdering(S)
<1>1. IsFiniteSet(S)
  <2>1. 1 \in Int /\ n \in Int
    OBVIOUS
  <2>2. IsFiniteSet(1..n)
    BY <2>1, FS_Interval
  <2> QED
    BY <2>2, FS_Subset
<1>2. F \subseteq FiniteSubsetsOf(S) /\ F # {}
  <2>1. \A x \in S : Above(x) \in SUBSET S
    OBVIOUS
  <2>2. \A x \in S : IsFiniteSet(Above(x))
    BY <1>1, <2>1, FS_Subset
  <2> QED
    BY <2>1, <2>2 DEF FiniteSubsetsOf
<1>3. PICK T \in F : \A U \in F : <<U, T>> \notin R
  <2>1. IsWellFoundedOn(R, FiniteSubsetsOf(S))
    BY FS_StrictSubsetOrderingWellFounded
  <2> QED
    BY <1>2, <2>1, WFMin
<1>4. PICK m \in S : T = Above(m)
  BY <1>3
<1>5. ASSUME NEW x \in S, ~(x <= m)
      PROVE  FALSE
  <2>1. x \in Nat /\ m \in Nat /\ S \subseteq Nat
    OBVIOUS
  <2>2. m \in Above(m) /\ m \notin Above(x)
    BY <1>5, <2>1
  <2>3. \A y \in S : x <= y => m <= y
    BY <1>5, <2>1
  <2>4. <<Above(x), Above(m)>> \in R
    BY <2>2, <2>3 DEF StrictSubsetOrdering
  <2> QED
    BY <1>3, <1>4, <2>4
<1> QED
  BY <1>5

LEMMA FirstOf ==
  ASSUME NEW n \in Nat, NEW S \in SUBSET (1..n), S # {}
  PROVE  \E m \in S : \A x \in S : m <= x
<1> DEFINE T == {n + 1 - x : x \in S}
<1>1. T \in SUBSET (1..n) /\ T # {}
  <2>1. \A x \in S : n + 1 - x \in 1..n
    OBVIOUS
  <2> QED
    BY <2>1
<1>2. PICK m \in T : \A x \in T : x <= m
  <2> HIDE DEF T
  <2> QED
    BY <1>1, LastOf
<1>3. PICK k \in S : m = n + 1 - k
  BY <1>2
<1>4. ASSUME NEW x \in S
      PROVE  k <= x
  <2>1. n + 1 - x <= n + 1 - k
    BY <1>2, <1>3
  <2> QED
    BY <2>1
<1> QED
  BY <1>4

(* The drivers put a bounded number of keys.                               *)
LEMMA Longest ==
  /\ MaxBefore \in Nat /\ \A s \in Before : Len(s) \in Nat /\ Len(s) <= MaxBefore
  /\ MaxPuts \in Nat /\ MaxGets \in Nat
  /\ null \notin Nat /\ Uninit \notin Nat /\ null # Uninit
<1>1. \A s \in Before : Len(s) \in Nat
  BY HashMapAssumption, LenProperties
<1>2. PICK s \in Before : \A r \in Before : Len(r) <= Len(s)
  BY HashMapAssumption
<1>3. \E n \in {Len(r) : r \in Before} : \A r \in Before : Len(r) <= n
  BY <1>2
<1>4. MaxBefore \in {Len(r) : r \in Before} /\ \A r \in Before : Len(r) <= MaxBefore
  BY <1>3 DEF MaxBefore
<1> QED
  BY <1>1, <1>4, HashMapAssumption

(* Division with remainder.                                                *)
LEMMA Division ==
  ASSUME NEW m \in Nat \ {0}, NEW x \in Int
  PROVE  \E q \in Int : x = q * m + (x % m) /\ x % m \in 0..(m - 1)
<1>1. x = (x \div m) * m + (x % m) /\ x \div m \in Int /\ x % m \in 0..(m - 1)
  OBVIOUS
<1> QED
  BY <1>1

LEMMA Remainder ==
  ASSUME NEW m \in Nat \ {0}, NEW q \in Int, NEW r \in 0..(m - 1)
  PROVE  (q * m + r) % m = r
<1>1. PICK x \in Int : x = q * m + r
  OBVIOUS
<1>2. PICK p \in Int, s \in 0..(m - 1) : x = p * m + s /\ x % m = s
  BY Division
<1>3. (q - p) * m = s - r /\ (p - q) * m = r - s
  BY <1>1, <1>2
<1>4. ~(q - p >= 1) /\ ~(p - q >= 1)
  <2>1. \A k \in Int : k >= 1 => k * m >= m
    <3>1. ASSUME NEW k \in Int, k >= 1
          PROVE  k * m = m + (k - 1) * m /\ (k - 1) * m >= 0
      BY <3>1
    <3> QED
      BY <3>1
  <2>2. q - p \in Int /\ p - q \in Int
    OBVIOUS
  <2>3. q - p >= 1 => s - r >= m
    BY <1>3, <2>1, <2>2
  <2>4. p - q >= 1 => r - s >= m
    BY <1>3, <2>1, <2>2
  <2> QED
    BY <2>3, <2>4
<1>5. p = q
  BY <1>4
<1> QED
  BY <1>1, <1>2, <1>5

LEMMA RemainderOfRemainder ==
  ASSUME NEW m \in Nat \ {0}, NEW n \in Nat \ {0}, n % m = 0, NEW k \in Int
  PROVE  (k % n) % m = k % m
<1>1. PICK c \in Int : n = c * m
  <2>1. n \in Int
    OBVIOUS
  <2>2. PICK c \in Int : n = c * m + (n % m)
    BY <2>1, Division
  <2> QED
    BY <2>2
<1>2. PICK q \in Int, r \in Int : k = q * n + r /\ k % n = r
  <2>1. \E q \in Int : k = q * n + (k % n)
    BY Division
  <2>2. k % n \in Int
    OBVIOUS
  <2> QED
    BY <2>1, <2>2
<1>3. PICK d \in Int, s \in 0..(m - 1) : r = d * m + s /\ r % m = s
  BY Division
<1>4. k = (q * c + d) * m + s /\ q * c + d \in Int
  <2>1. q * (c * m) = (q * c) * m /\ q * c \in Int
    OBVIOUS
  <2> QED
    BY <1>1, <1>2, <1>3, <2>1
<1>5. k % m = s
  BY <1>4, Remainder
<1> QED
  BY <1>2, <1>3, <1>5

(* Keys of one bucket are keys of one segment.                             *)
LEMMA Remainders ==
  ASSUME NEW k \in Nat
  PROVE  BucketOf(k) \in Bucket /\ SegmentOf(k) \in Segment /\ SegmentOf(BucketOf(k)) = SegmentOf(k)
<1>1. /\ capacity \in Nat \ {0} /\ CONCURRENCY_LEVEL \in Nat \ {0}
      /\ capacity % CONCURRENCY_LEVEL = 0
  BY HashMapAssumption
<1>2. BucketOf(k) \in Bucket /\ SegmentOf(k) \in Segment
  BY <1>1 DEF BucketOf, SegmentOf, Bucket, Segment
<1>3. (k % capacity) % CONCURRENCY_LEVEL = k % CONCURRENCY_LEVEL
  <2>1. k \in Int
    OBVIOUS
  <2> QED
    BY <1>1, <2>1, RemainderOfRemainder
<1> QED
  BY <1>2, <1>3 DEF BucketOf, SegmentOf

LEMMA KeyType ==
  ASSUME NEW k \in Key
  PROVE  /\ k \in Nat /\ k # 0 /\ BucketOf(k) \in Bucket /\ SegmentOf(k) \in Segment
         /\ SegmentOf(BucketOf(k)) = SegmentOf(k)
BY HashMapAssumption, Remainders

(* The locations are different.                                            *)
LEMMA Locations ==
  /\ \A b \in Bucket : Table(b) \in Loc
  /\ \A s \in Segment : Mutex(s) \in Loc
  /\ \A x \in Entry : KeyOf(x) \in Loc /\ ValueOf(x) \in Loc /\ NextOf(x) \in Loc
  /\ \A x, y : Table(x) = Table(y) \/ Mutex(x) = Mutex(y) => x = y
  /\ \A x, y : KeyOf(x) = KeyOf(y) \/ ValueOf(x) = ValueOf(y) \/ NextOf(x) = NextOf(y) => x = y
  /\ \A x, y : Table(x) # Mutex(y) /\ Table(x) \notin Fields(y) /\ Mutex(x) \notin Fields(y)
  /\ \A x, y : KeyOf(x) # ValueOf(y) /\ KeyOf(x) # NextOf(y) /\ ValueOf(x) # NextOf(y)
<1>1. /\ \A b : Table(b)[1] = "table" /\ Table(b)[2] = b
      /\ \A s : Mutex(s)[1] = "segMutex" /\ Mutex(s)[2] = s
  BY DEF Table, Mutex
<1>2. \A x : /\ KeyOf(x)[1] = "key" /\ KeyOf(x)[2] = x
             /\ ValueOf(x)[1] = "value" /\ ValueOf(x)[2] = x
             /\ NextOf(x)[1] = "next" /\ NextOf(x)[2] = x
  BY DEF KeyOf, ValueOf, NextOf
<1>3. /\ \A b \in Bucket : Table(b) \in Loc
      /\ \A s \in Segment : Mutex(s) \in Loc
      /\ \A x \in Entry : KeyOf(x) \in Loc /\ ValueOf(x) \in Loc /\ NextOf(x) \in Loc
  BY DEF Loc
<1>4. /\ \A x, y : Table(x) = Table(y) \/ Mutex(x) = Mutex(y) => x = y
      /\ \A x, y : KeyOf(x) = KeyOf(y) \/ ValueOf(x) = ValueOf(y) \/ NextOf(x) = NextOf(y) => x = y
  BY <1>1, <1>2
<1>5. /\ \A x, y : Table(x) # Mutex(y) /\ Table(x) \notin Fields(y) /\ Mutex(x) \notin Fields(y)
      /\ \A x, y : KeyOf(x) # ValueOf(y) /\ KeyOf(x) # NextOf(y) /\ ValueOf(x) # NextOf(y)
  BY <1>1, <1>2 DEF Fields
<1> QED
  BY <1>3, <1>4, <1>5

(* The ranges of what the locals and the locations hold.                   *)
LEMMA Ranges ==
  /\ Entry \subseteq Nat /\ Value \subseteq Nat /\ Key \subseteq Nat
  /\ null \notin Entry /\ null \notin Value /\ Uninit \notin Value /\ Uninit \notin Entry
  /\ 0 \notin Entry /\ 0 \notin Value /\ 0 \notin Key
  /\ Entry \subseteq Content /\ Value \subseteq Content /\ Key \subseteq Content
  /\ null \in Content /\ Uninit \in Content /\ 0 \in Content /\ 1 \in Content
<1>1. Entry \subseteq Nat \ {0} /\ Value \subseteq Nat \ {0}
  BY Longest DEF Entry, Value
<1> QED
  BY <1>1, Longest, HashMapAssumption DEF Content

(* Lengths of the histories are positive numbers.                          *)
LEMMA Lengths ==
  ASSUME IInv, NEW l \in Loc
  PROVE  /\ Newest(l) \in Nat /\ Newest(l) >= 1 /\ hist[l] \in Seq(Messages(Loc, Content))
         /\ MemType(Loc, Content)
BY LenProperties DEF IInv, Types, MemType, Newest

(* A thread that knows a location reads its newest message.                *)
LEMMA Known ==
  ASSUME IInv, NEW t \in Thread, NEW l \in Loc, Knows(t, l)
  PROVE  /\ Event(l, Newest(l)) \in cur[t]
         /\ \A ord : Readable(t, l, ord) \subseteq {Newest(l)}
         /\ Synchronized(t, l)
<1>1. /\ Newest(l) \in Nat /\ Newest(l) >= 1 /\ MemType(Loc, Content)
      /\ \A j \in 1..Newest(l) : Event(l, j) = <<l, j>>
  BY Lengths DEF IInv, Chain, Linear, Event, Newest
<1>2. Event(l, Newest(l)) \in cur[t] /\ Synchronized(t, l)
  BY <1>1 DEF Knows, Synchronized, Upto
<1> QED
  BY <1>1, <1>2, NewestSeen

(* A load makes the thread know more, and changes nothing else.            *)
LEMMA Loading ==
  ASSUME IInv, NEW t \in Thread, NEW l \in Loc, NEW i, NEW ord, Load(t, l, i, ord)
  PROVE  /\ i \in 1..Newest(l) /\ i \in Readable(t, l, ord)
         /\ hist' = hist /\ sc' = sc /\ MemType(Loc, Content)'
         /\ \A u \in Thread : cur[u] \subseteq cur'[u]
         /\ \A u \in Thread \ {t} : cur'[u] = cur[u]
         /\ ord \in Acquiring => hist[l][i].view \subseteq cur'[t]
<1>1. MemType(Loc, Content)
  BY Lengths
<1>2. cur \in [Thread -> SUBSET Events(Loc)] /\ cur' = [cur EXCEPT ![t] = Observe(t, l, i, ord)]
  BY <1>1 DEF MemType, Load
<1>3. cur[t] \subseteq Observe(t, l, i, ord)
  BY DEF Observe
<1>4. ord \in Acquiring => hist[l][i].view \subseteq Observe(t, l, i, ord)
  BY DEF Observe
<1> QED
  BY <1>1, <1>2, <1>3, <1>4, LoadType DEF Load

(* A thread that knows a location stores behind all its messages.          *)
LEMMA Storing ==
  ASSUME IInv, NEW t \in Thread, NEW l \in Loc, NEW v \in Content, NEW ord,
         Knows(t, l), Store(t, l, v, ord)
  PROVE  /\ MemType(Loc, Content)' /\ Chain' /\ Appended(Loc, l)
         /\ Newest(l)' = Newest(l) + 1 /\ Current(l)' = v
         /\ hist'[l][Newest(l) + 1].val = v
         /\ hist'[l][Newest(l) + 1].view = Released(t, ord)
         /\ \A u \in Thread : cur[u] \subseteq cur'[u]
         /\ <<l, Newest(l) + 1>> \in cur'[t]
         /\ sc \subseteq sc' /\ (ord = seq_cst => <<l, Newest(l) + 1>> \in sc')
<1>1. MemType(Loc, Content) /\ Event(l, Newest(l)) \in cur[t]
  BY Lengths, Known
<1>2. /\ Appended(Loc, l)
      /\ hist'[l][Newest(l) + 1].id = Newest(l) + 1
      /\ hist'[l][Newest(l) + 1].val = v
      /\ hist'[l][Newest(l) + 1].view = Released(t, ord)
      /\ cur'[t] = cur[t] \cup Upto(l, Newest(l)) \cup {NextEvent(l)}
  BY <1>1, StoreAtEnd
<1>3. MemType(Loc, Content)' /\ Chain'
  BY <1>1, <1>2, StoreType, AppendedLinear DEF IInv, Chain
<1>4. Newest(l)' = Newest(l) + 1 /\ Current(l)' = v
  BY <1>2 DEF Appended, Newest, Current, Val
<1>5. cur \in [Thread -> SUBSET Events(Loc)]
  BY <1>1 DEF MemType
<1>6. (\A u \in Thread \ {t} : cur'[u] = cur[u]) /\ JoinSC(l, ord)
  BY <1>5 DEF Store
<1>7. sc \subseteq sc' /\ (ord = seq_cst => <<l, Newest(l) + 1>> \in sc')
  BY <1>6 DEF JoinSC, NextEvent
<1> QED
  BY <1>2, <1>3, <1>4, <1>6, <1>7 DEF NextEvent

(* The entries that have been made, and one more for a put().              *)
LEMMA Bound ==
  ASSUME IInv
  PROVE  /\ entries \in Nat /\ 1..entries \subseteq Entry /\ Linked \subseteq Entry
         /\ \A t \in MayMake : entries + 1 \in Entry
<1>1. /\ entries \in Nat /\ puts \in 0..MaxPuts /\ MaxBefore \in Nat /\ MaxPuts \in Nat
      /\ IsFiniteSet(MayMake) /\ entries + Cardinality(MayMake) <= MaxBefore + puts
  BY Longest DEF IInv, Types, Locals, Room
<1>2. Cardinality(MayMake) \in Nat
  BY <1>1, FS_CardinalityType
<1>3. \A t \in MayMake : Cardinality(MayMake) >= 1
  BY <1>1, <1>2, FS_EmptySet
<1>4. 1..entries \subseteq Entry
  BY <1>1, <1>2 DEF Entry
<1>5. ASSUME NEW t \in MayMake
      PROVE  entries + 1 \in Entry
  BY <1>1, <1>2, <1>3 DEF Entry
<1> QED
  BY <1>1, <1>4, <1>5 DEF IInv, Lists

(* As long as no more of them look for an entry there is room for all.     *)
LEMMA RoomKept ==
  ASSUME IInv, NEW S, S = MayMake', S \subseteq MayMake, entries' = entries,
         puts \in Nat, puts' \in Nat, puts' >= puts
  PROVE  Room'
<1>1. IsFiniteSet(MayMake) /\ entries + Cardinality(MayMake) <= MaxBefore + puts
  BY DEF IInv, Room
<1>2. IsFiniteSet(S) /\ Cardinality(S) <= Cardinality(MayMake)
  BY <1>1, FS_Subset
<1>3. Cardinality(S) \in Nat /\ Cardinality(MayMake) \in Nat /\ entries \in Nat /\ MaxBefore \in Nat
  BY <1>1, <1>2, FS_CardinalityType, Bound, Longest
<1>4. entries + Cardinality(S) <= MaxBefore + puts'
  BY <1>1, <1>2, <1>3
<1> QED
  BY <1>2, <1>4 DEF Room

(* A step that leaves the lists alone: which entries are linked, where the *)
(* pointers lead, and what new wrote.                                      *)
Kept ==
  /\ Linked' = Linked /\ entries' \in Nat /\ entries <= entries'
  /\ \A b \in Bucket : hist'[Table(b)] = hist[Table(b)]
  /\ \A x \in Linked : /\ hist'[KeyOf(x)] = hist[KeyOf(x)] /\ hist'[NextOf(x)] = hist[NextOf(x)]
                       /\ hist'[ValueOf(x)][1] = hist[ValueOf(x)][1]
  /\ \A t \in Thread : cur[t] \subseteq cur'[t]

LEMMA ListsKept ==
  ASSUME IInv, Kept
  PROVE  /\ Lists' /\ Trails'
         /\ \A x \in Linked : KeyAt(x)' = KeyAt(x)
         /\ \A b : In(b)' = In(b)
         /\ \A b \in Bucket : Current(Table(b))' = Current(Table(b))
         /\ \A view, x : x \in Linked /\ KnowsEntry(view, x) => KnowsEntry(view, x)'
         /\ \A t \in Thread, x \in Linked : KnowsEntry(cur[t], x) => KnowsEntry(cur[t], x)'
<1>1. \A x \in Linked : KeyAt(x)' = KeyAt(x) /\ Current(NextOf(x))' = Current(NextOf(x))
  BY DEF Kept, KeyAt, Current, Val, Newest
<1>2. \A b : In(b)' = In(b)
  BY <1>1 DEF In, Kept
<1>3. \A b \in Bucket : /\ Current(Table(b))' = Current(Table(b)) /\ Newest(Table(b))' = Newest(Table(b))
                        /\ \A i : Val(Table(b), i)' = Val(Table(b), i)
  BY DEF Kept, Current, Val, Newest
<1>4. \A view, x : x \in Linked /\ KnowsEntry(view, x) => KnowsEntry(view, x)'
  BY DEF Kept, KnowsEntry, Carries, Newest, Val
<1>5. \A t \in Thread, x \in Linked : KnowsEntry(cur[t], x) => KnowsEntry(cur[t], x)'
  BY DEF Kept, KnowsEntry, Carries, Newest, Val
<1>6. Trails'
  <2> SUFFICES ASSUME NEW b \in Bucket, NEW i \in 1..Newest(Table(b)), NEW y \in In(b),
                      Val(Table(b), i) # null, y <= Val(Table(b), i)
               PROVE  KnowsEntry(hist[Table(b)][i].view, y)'
    BY <1>2, <1>3 DEF Trails
  <2>1. PICK view : view = hist[Table(b)][i].view
    OBVIOUS
  <2>2. KnowsEntry(view, y) /\ y \in Linked
    BY <2>1 DEF IInv, Handover, Trails, In
  <2>3. KnowsEntry(view, y)' /\ hist'[Table(b)] = hist[Table(b)]
    BY <1>4, <2>2 DEF Kept
  <2> QED
    BY <2>1, <2>3 DEF KnowsEntry
<1>7. Lists'
  <2>1. Linked' \subseteq 1..entries' /\ (\A x \in Linked' : KeyAt(x)' \in Key)
        /\ \A x, y \in Linked' : KeyAt(x)' = KeyAt(y)' => x = y
    BY <1>1, Bound DEF IInv, Lists, Kept
  <2>2. /\ \A b \in Bucket : IsLast(Current(Table(b)), In(b))'
        /\ \A b \in Bucket : \A i \in 1..Newest(Table(b))' : Val(Table(b), i)' \in In(b)' \cup {null}
    BY <1>2, <1>3 DEF IInv, Lists, IsLast
  <2>3. ASSUME NEW x \in Linked
        PROVE  IsLast(Current(NextOf(x)), {y \in In(BucketOf(KeyAt(x))) : y < x})'
    <3>1. /\ Current(NextOf(x))' = Current(NextOf(x))
          /\ In(BucketOf(KeyAt(x)))' = In(BucketOf(KeyAt(x)))
      BY <1>1, <1>2
    <3> QED
      BY <3>1 DEF IInv, Lists, IsLast
  <2> QED
    BY <2>1, <2>2, <2>3 DEF Lists, Kept
<1> QED
  BY <1>1, <1>2, <1>3, <1>4, <1>5, <1>6, <1>7

(* What is known of a thread that does not move.                           *)
Still(u) ==
  /\ pc'[u] = pc[u] /\ key'[u] = key[u] /\ value'[u] = value[u]
  /\ e'[u] = e[u] /\ first'[u] = first[u] /\ old'[u] = old[u]

LEMMA CallKept ==
  ASSUME IInv, NEW u \in Thread, Still(u)
  PROVE  CallWell(u)'
BY DEF IInv, Well, CallWell, Still

LEMMA HomeType ==
  ASSUME IInv, NEW u \in Thread, pc[u] # "idle"
  PROVE  /\ key[u] \in Key /\ Home(u) \in Bucket /\ Seg(u) \in Segment /\ SegmentOf(Home(u)) = Seg(u)
         /\ First(u) = Table(Home(u)) /\ First(u) \in Loc
<1>1. key[u] \in Key
  BY DEF IInv, Well, CallWell
<1> QED
  BY <1>1, KeyType, Locations DEF Home, Seg, First

LEMMA WellKept ==
  ASSUME IInv, Kept, NEW u \in Thread, Still(u),
         pc[u] = "putValue" => Current(ValueOf(e[u]))' = Current(ValueOf(e[u])),
         pc[u] \in MakeLabel => \A l \in Fields(e[u]) : hist'[l] = hist[l]
  PROVE  Well(u)'
<1>1. /\ \A x \in Linked : KeyAt(x)' = KeyAt(x)
      /\ \A b : In(b)' = In(b)
      /\ \A b \in Bucket : Current(Table(b))' = Current(Table(b))
      /\ \A x \in Linked : KnowsEntry(cur[u], x) => KnowsEntry(cur[u], x)'
  BY ListsKept
<1>2. Linked' = Linked /\ Home(u)' = Home(u) /\ \A b : \A y \in In(b) : y \in Linked
  BY DEF Kept, Still, Home, In
<1>3. PICK b : b = Home(u)
  OBVIOUS
<1>4. In(Home(u))' = In(Home(u)) /\ In(Home(u)) \subseteq Linked
  BY <1>1, <1>2
<1>5. WalkWell(u)'
  BY <1>1, <1>4 DEF IInv, Well, WalkWell, Still
<1>6. pc[u] # "idle" => Current(First(u))' = Current(First(u))
  <2> SUFFICES ASSUME pc[u] # "idle"
               PROVE  Current(First(u))' = Current(First(u))
    OBVIOUS
  <2>1. First(u) = Table(b) /\ b \in Bucket /\ First(u)' = Table(b)
    BY <1>3, HomeType DEF First, Still
  <2>2. Current(Table(b))' = Current(Table(b))
    BY <1>1, <2>1
  <2> QED
    BY <2>1, <2>2 DEF Current, Val, Newest
<1>7. SearchWell(u)'
  <2>1. SearchWell(u)
    BY DEF IInv, Well
  <2>2. \A y \in In(Home(u)) : KeyAt(y)' = KeyAt(y)
    BY <1>1, <1>4
  <2>3. pc[u] = "putValue" =>
          /\ e[u] \in Linked /\ KeyAt(e[u])' = key[u]
          /\ old[u] = Current(ValueOf(e[u])) /\ Current(ValueOf(e[u]))' = old[u]
    <3>1. PICK x : x = e[u] /\ x = e'[u]
      BY DEF Still
    <3>2. x \in Linked => KeyAt(x)' = KeyAt(x)
      BY <1>1
    <3>3. pc[u] = "putValue" =>
            x \in Linked /\ KeyAt(x) = key[u] /\ old[u] = Current(ValueOf(x))
      BY <2>1, <3>1 DEF SearchWell
    <3> QED
      BY <3>1, <3>2, <3>3
  <2> QED
    BY <1>2, <1>4, <1>6, <2>1, <2>2, <2>3 DEF SearchWell, Still, AbsentLabel, MakeLabel
<1>8. MakeWell(u)'
  <2> SUFFICES ASSUME pc[u] \in MakeLabel
               PROVE  MakeWell(u)'
    BY DEF MakeWell, Still
  <2>1. MakeWell(u)
    BY DEF IInv, Well
  <2>2. PICK x : x = e[u] /\ x = e'[u]
    BY DEF Still
  <2>3. \A l \in Fields(x) : hist'[l] = hist[l]
    BY <2>2
  <2>4. /\ KeyAt(x)' = KeyAt(x) /\ Current(NextOf(x))' = Current(NextOf(x))
        /\ Blank(ValueOf(x))' = Blank(ValueOf(x)) /\ Blank(NextOf(x))' = Blank(NextOf(x))
        /\ Newest(ValueOf(x))' = Newest(ValueOf(x)) /\ \A i : Val(ValueOf(x), i)' = Val(ValueOf(x), i)
    BY <2>3 DEF Fields, KeyAt, Current, Blank, Newest, Val
  <2>5. x \in 1..entries' /\ x \notin Linked'
    BY <2>1, <2>2, Bound, <1>2 DEF MakeWell, Kept
  <2> QED
    BY <1>4, <2>1, <2>2, <2>4, <2>5 DEF MakeWell, Still
<1> QED
  BY <1>5, <1>7, <1>8, CallKept DEF Well

(* What is guarded by different mutexes is different.                      *)
LEMMA GuardedApart ==
  ASSUME NEW s, NEW r, NEW l \in Guarded(s), l \in Guarded(r)
  PROVE  s = r
<1>1. CASE \E b \in Bucket : SegmentOf(b) = s /\ l = Table(b)
  BY <1>1, Locations DEF Guarded
<1>2. CASE \E x \in 1..entries : SegmentOf(KeyAt(x)) = s /\ l \in Fields(x)
  <2>1. PICK x \in 1..entries : SegmentOf(KeyAt(x)) = s /\ l \in Fields(x)
    BY <1>2
  <2>2. \A b : l # Table(b)
    BY <2>1, Locations
  <2>3. PICK y \in 1..entries : SegmentOf(KeyAt(y)) = r /\ l \in Fields(y)
    BY <2>2 DEF Guarded
  <2>4. x = y
    BY <2>1, <2>3, Locations DEF Fields
  <2> QED
    BY <2>1, <2>3, <2>4
<1> QED
  BY <1>1, <1>2 DEF Guarded

(* The table of a bucket, and the fields of an entry, are guarded.         *)
LEMMA GuardedIs ==
  ASSUME IInv, NEW t \in Thread, pc[t] # "idle"
  PROVE  /\ Table(Home(t)) \in Guarded(Seg(t))
         /\ \A x \in 1..entries : KeyAt(x) = key[t] => Fields(x) \subseteq Guarded(Seg(t))
         /\ \A x \in In(Home(t)) : x \in Linked /\ Fields(x) \subseteq Guarded(Seg(t))
<1>1. Home(t) \in Bucket /\ SegmentOf(Home(t)) = Seg(t)
  BY HomeType
<1>2. ASSUME NEW x \in 1..entries, SegmentOf(KeyAt(x)) = Seg(t)
      PROVE  Fields(x) \subseteq Guarded(Seg(t))
  BY <1>2 DEF Guarded
<1>3. ASSUME NEW x \in In(Home(t))
      PROVE  x \in Linked /\ Fields(x) \subseteq Guarded(Seg(t))
  <2>1. x \in Linked /\ x \in 1..entries /\ KeyAt(x) \in Key /\ BucketOf(KeyAt(x)) = Home(t)
    BY DEF In, IInv, Lists
  <2>2. SegmentOf(KeyAt(x)) = Seg(t)
    BY <1>1, <2>1, KeyType
  <2> QED
    BY <1>2, <2>1, <2>2
<1> QED
  BY <1>1, <1>2, <1>3 DEF Guarded, Seg

LEMMA GuardedIn ==
  ASSUME IInv, NEW s
  PROVE  Guarded(s) \subseteq Loc /\ \A r : Mutex(r) \notin Guarded(s)
BY Bound, Locations DEF Guarded, Fields

(* What the holder of the mutex of a bucket knows.                         *)
LEMMA HolderKnows ==
  ASSUME IInv, NEW t \in Thread, Holds(t)
  PROVE  /\ Knows(t, Mutex(Seg(t))) /\ Knows(t, Table(Home(t)))
         /\ \A x \in In(Home(t)) :
              /\ Knows(t, KeyOf(x)) /\ Knows(t, ValueOf(x)) /\ Knows(t, NextOf(x))
              /\ KnowsEntry(cur[t], x)
         /\ \A x \in 1..entries : KeyAt(x) = key[t] =>
              Knows(t, KeyOf(x)) /\ Knows(t, ValueOf(x)) /\ Knows(t, NextOf(x))
<1>1. pc[t] # "idle"
  BY DEF Holds, PutLabel
<1>2. Knows(t, Mutex(Seg(t))) /\ \A l \in Guarded(Seg(t)) : Knows(t, l)
  BY DEF IInv, Handover, Held
<1>3. ASSUME NEW x \in In(Home(t))
      PROVE  KnowsEntry(cur[t], x)
  <2>1. Knows(t, KeyOf(x)) /\ Knows(t, ValueOf(x)) /\ Knows(t, NextOf(x)) /\ x \in Linked
    BY <1>1, <1>2, GuardedIs DEF Fields
  <2>2. KeyOf(x) \in Loc /\ NextOf(x) \in Loc /\ ValueOf(x) \in Loc
    BY <2>1, Bound, Locations
  <2>3. Val(ValueOf(x), 1) = Uninit => 2 \in 1..Newest(ValueOf(x))
    BY <2>1, <2>2, Lengths DEF IInv, Values
  <2> QED
    BY <2>1, <2>3 DEF KnowsEntry, Carries, Knows
<1> QED
  BY <1>1, <1>2, <1>3, GuardedIs DEF Fields

(* A step of t that writes nothing.                                        *)
LEMMA Quiet ==
  ASSUME IInv, NEW t \in Thread, hist' = hist, sc' = sc, entries' = entries, puts' = puts,
         MemType(Loc, Content)', \A u \in Thread : cur[u] \subseteq cur'[u],
         Locals', \A u \in Thread \ {t} : Still(u),
         Holds(t)' => Holds(t) /\ key'[t] = key[t],
         t \in MayMake' => t \in MayMake,
         Kept => Well(t)'
  PROVE  IInv' /\ Kept
<1>1. \A l : /\ Newest(l)' = Newest(l) /\ Current(l)' = Current(l)
             /\ (Linear(l) => Linear(l)') /\ (Blank(l) => Blank(l)') /\ \A i : Val(l, i)' = Val(l, i)
  BY DEF Newest, Current, Linear, Blank, Val
<1>2. Linked' = Linked /\ \A x : KeyAt(x)' = KeyAt(x)
  BY <1>1 DEF Linked, KeyAt, Current
<1>3. Kept
  BY <1>2, Bound DEF Kept
<1>4. Types' /\ Chain' /\ Fresh' /\ Values'
  BY <1>1, <1>2 DEF IInv, Types, Chain, Fresh, Values, Made
<1>5. Room'
  <2>1. PICK S : S = MayMake'
    OBVIOUS
  <2>2. S \subseteq MayMake
    BY <2>1 DEF MayMake, Still
  <2> QED
    BY <2>1, <2>2, RoomKept DEF IInv, Types, Locals
<1>6. \A u \in Thread : Holds(u)' => Holds(u) /\ Seg(u)' = Seg(u) /\ key'[u] = key[u]
  BY DEF Still, Holds, Seg
<1>7. \A s : Guarded(s)' = Guarded(s)
  BY <1>2 DEF Guarded
<1>8. Mutual'
  <2>1. \A s : Current(Mutex(s))' = Current(Mutex(s))
    BY <1>1
  <2> QED
    BY <1>6, <2>1 DEF IInv, Mutual
<1>9. Initials'
  BY DEF IInv, Handover, Initials
<1>10. Held'
  <2> SUFFICES ASSUME NEW u \in Thread, Holds(u)'
               PROVE  Knows(u, Mutex(Seg(u)))' /\ \A l \in Guarded(Seg(u))' : Knows(u, l)'
    BY DEF Held
  <2>1. PICK s : s = Seg(u) /\ s = Seg(u)'
    BY <1>6
  <2>2. Knows(u, Mutex(s)) /\ \A l \in Guarded(s) : Knows(u, l)
    BY <1>6, <2>1 DEF IInv, Handover, Held
  <2>3. Knows(u, Mutex(s))' /\ \A l \in Guarded(s)' : Knows(u, l)'
    BY <1>1, <1>7, <2>2 DEF Knows
  <2> QED
    BY <2>1, <2>3
<1>11. Passed'
  BY <1>1, <1>7 DEF IInv, Handover, Passed, Carries
<1>12. \A u \in Thread : Well(u)'
  <2>1. ASSUME NEW u \in Thread \ {t}
        PROVE  Well(u)'
    <3>1. Current(ValueOf(e[u]))' = Current(ValueOf(e[u]))
      BY <2>1 DEF Still, Current, Val, Newest
    <3> QED
      BY <1>3, <2>1, <3>1, WellKept
  <2> QED
    BY <1>3, <2>1
<1> QED
  BY <1>3, <1>4, <1>5, <1>8, <1>9, <1>10, <1>11, <1>12, ListsKept DEF IInv, Handover

LEMMA Same ==
  ASSUME hist' = hist, entries' = entries
  PROVE  /\ Linked' = Linked /\ (\A x : KeyAt(x)' = KeyAt(x)) /\ \A b : In(b)' = In(b)
         /\ \A l : /\ Current(l)' = Current(l) /\ Newest(l)' = Newest(l) /\ (Blank(l)' <=> Blank(l))
                   /\ \A i : Val(l, i)' = Val(l, i)
         /\ \A view, x : KnowsEntry(view, x) => KnowsEntry(view, x)'
<1>1. \A l : /\ Current(l)' = Current(l) /\ Newest(l)' = Newest(l) /\ (Blank(l)' <=> Blank(l))
             /\ \A i : Val(l, i)' = Val(l, i)
  BY DEF Current, Newest, Blank, Val
<1>2. Linked' = Linked /\ \A x : KeyAt(x)' = KeyAt(x)
  BY <1>1 DEF Linked, KeyAt, Current
<1>3. \A b : In(b)' = In(b)
  BY <1>2 DEF In
<1>4. \A view, x : KnowsEntry(view, x) => KnowsEntry(view, x)'
  BY <1>1 DEF KnowsEntry, Carries
<1> QED
  BY <1>1, <1>2, <1>3, <1>4

(* The state of a walk of t in bucket b that has got to p.                 *)
AtEntry(t, b, p) == p \in In(b) /\ \A y \in In(b) : y <= p => KnowsEntry(cur[t], y)

LEMMA AtEntryKept ==
  ASSUME IInv, NEW t \in Thread, hist' = hist, entries' = entries, cur[t] \subseteq cur'[t],
         NEW b, NEW p, AtEntry(t, b, p)
  PROVE  AtEntry(t, b, p)'
<1>1. \A view, x : KnowsEntry(view, x) => KnowsEntry(view, x)'
  BY Same
<1>2. \A x : KnowsEntry(cur[t], x) => KnowsEntry(cur[t], x)'
  BY <1>1 DEF KnowsEntry, Carries
<1> QED
  BY <1>2, Same DEF AtEntry

LEMMA HolderAtEntry ==
  ASSUME IInv, NEW t \in Thread, Holds(t), NEW p \in In(Home(t))
  PROVE  AtEntry(t, Home(t), p)
BY HolderKnows DEF AtEntry

(* A holder reads the head of the list of its bucket.                      *)
LEMMA HeadOf ==
  ASSUME IInv, NEW b \in Bucket
  PROVE  /\ Current(Table(b)) \in In(b) \cup {null} /\ IsLast(Current(Table(b)), In(b))
         /\ In(b) \subseteq Linked /\ Linked \subseteq Entry /\ null \notin In(b)
<1>1. IsLast(Current(Table(b)), In(b))
  BY DEF IInv, Lists
<1>2. In(b) \subseteq Linked /\ Linked \subseteq Entry
  BY Bound DEF In
<1> QED
  BY <1>1, <1>2, Ranges DEF IsLast

LEMMA LoadHead ==
  ASSUME IInv, NEW t \in Thread, Holds(t), NEW i, NEW ord, Load(t, First(t), i, ord)
  PROVE  Val(First(t), i) = Current(Table(Home(t)))
<1>1. First(t) = Table(Home(t)) /\ First(t) \in Loc
  BY HomeType DEF Holds, PutLabel
<1>2. i \in Readable(t, First(t), ord)
  BY DEF Load
<1>3. i = Newest(First(t))
  BY <1>1, <1>2, Known, HolderKnows
<1> QED
  BY <1>1, <1>3 DEF Current

(* put() reads the head of the list.                                       *)
LEMMA PutLoadFirstStep ==
  ASSUME IInv, NEW t \in Thread, Put_LoadFirst(t)
  PROVE  IInv'
<1>1. PICK i : /\ Load(t, First(t), i, OrderPutFirst)
               /\ first' = [first EXCEPT ![t] = Val(First(t), i)]
               /\ e' = [e EXCEPT ![t] = Val(First(t), i)]
               /\ MoveTo(t, IF e'[t] = null THEN "newEntry" ELSE "putWalk")
  BY DEF Put_LoadFirst
<1>2. /\ pc[t] = "putFirst" /\ Holds(t)
      /\ UNCHANGED <<key, value, old, entries, puts, gets>>
  BY DEF Put_LoadFirst, Holds, PutLabel
<1>3. PICK b \in Bucket : b = Home(t)
  BY <1>2, HomeType
<1>4. PICK p : p = Current(Table(b))
  OBVIOUS
<1>5. Val(First(t), i) = p
  BY <1>1, <1>2, <1>3, <1>4, LoadHead
<1>6. p \in In(b) \cup {null} /\ IsLast(p, In(b)) /\ null \notin In(b) /\ In(b) \subseteq Entry
  BY <1>4, HeadOf
<1>7. /\ hist' = hist /\ sc' = sc /\ MemType(Loc, Content)'
      /\ \A u \in Thread : cur[u] \subseteq cur'[u]
  BY <1>1, <1>2, HomeType, Loading
<1>8. Locals /\ CallWell(t) /\ key[t] \in Key
  BY <1>2, HomeType DEF IInv, Types, Well
<1>9. /\ pc'[t] = (IF p = null THEN "newEntry" ELSE "putWalk")
      /\ e'[t] = p /\ first'[t] = p /\ key'[t] = key[t]
      /\ \A u \in Thread \ {t} : Still(u)
  BY <1>1, <1>2, <1>5, <1>8 DEF MoveTo, Locals, Still
<1>10. Locals'
  BY <1>1, <1>2, <1>5, <1>6, <1>8 DEF MoveTo, Locals, Label, PutLabel
<1>11. Well(t)'
  <2>1. /\ In(b)' = In(b) /\ Home(t)' = b /\ Current(First(t))' = p
        /\ \A x : KeyAt(x)' = KeyAt(x)
    <3>1. First(t) = Table(b) /\ First(t)' = Table(b) /\ Current(Table(b))' = p
      BY <1>2, <1>3, <1>4, <1>7, HomeType, Same DEF First
    <3>2. Current(First(t))' = Current(Table(b))'
      BY <3>1 DEF Current, Newest, Val
    <3> QED
      BY <1>2, <1>3, <1>7, <3>1, <3>2, Same DEF Home
  <2>2. p # null => AtEntry(t, b, p)'
    <3>1. p # null => AtEntry(t, b, p)
      BY <1>2, <1>3, <1>6, HolderAtEntry
    <3> QED
      BY <1>2, <1>7, <3>1, AtEntryKept
  <2>3. WalkWell(t)'
    BY <1>9, <2>1, <2>2 DEF WalkWell, AtEntry, WalkLabel
  <2>4. SearchWell(t)'
    <3>1. p = null => In(b) = {}
      BY <1>6 DEF IsLast
    <3>2. p # null => \A y \in In(b) : ~(p < y)
      <4> SUFFICES ASSUME p # null, NEW y \in In(b)
                   PROVE  ~(p < y)
        OBVIOUS
      <4>1. y <= p /\ y \in Nat /\ p \in Nat
        BY <1>6, Ranges DEF IsLast
      <4> QED
        BY <4>1
    <3> QED
      BY <1>9, <2>1, <3>1, <3>2 DEF SearchWell, AbsentLabel, MakeLabel
  <2>5. CallWell(t)' /\ MakeWell(t)'
    BY <1>2, <1>8, <1>9 DEF CallWell, MakeWell, MakeLabel, PutLabel
  <2> QED
    BY <2>3, <2>4, <2>5 DEF Well
<1>12. t \in MayMake /\ puts' = puts
  BY <1>2 DEF MayMake
<1> QED
  BY <1>2, <1>7, <1>9, <1>10, <1>11, <1>12, Quiet

(* put() reads the value of the entry it has found.                        *)
LEMMA PutLoadValueStep ==
  ASSUME IInv, NEW t \in Thread, Put_LoadValue(t)
  PROVE  IInv'
<1>1. PICK i : /\ Load(t, ValueOf(e[t]), i, relaxed)
               /\ old' = [old EXCEPT ![t] = Val(ValueOf(e[t]), i)]
  BY DEF Put_LoadValue
<1>2. /\ pc[t] = "putWalk" /\ Holds(t) /\ pc' = [pc EXCEPT ![t] = "putValue"]
      /\ e[t] # null /\ KeyAt(e[t]) = key[t]
      /\ UNCHANGED <<key, value, e, first, entries, puts, gets>>
  BY DEF Put_LoadValue, Goto, MoveTo, Found, Holds, PutLabel
<1>3. PICK x : x = e[t] /\ x \in In(Home(t)) /\ x \in Linked /\ x \in Entry
  BY <1>2, Bound DEF IInv, Well, WalkWell, WalkLabel, In
<1>4. ValueOf(x) \in Loc /\ Knows(t, ValueOf(x))
  BY <1>2, <1>3, Locations, HolderKnows
<1>5. i = Newest(ValueOf(x)) /\ i >= 1 /\ i \in Nat
  BY <1>1, <1>3, <1>4, Known, Lengths DEF Load
<1>6. /\ hist' = hist /\ sc' = sc /\ MemType(Loc, Content)'
      /\ \A u \in Thread : cur[u] \subseteq cur'[u]
  BY <1>1, <1>3, <1>4, Loading
<1>7. PICK v : v = Current(ValueOf(x)) /\ v = Val(ValueOf(e[t]), i)
  BY <1>3, <1>5 DEF Current
<1>8. v \in Value
  <2>1. ~(i = 1 /\ Val(ValueOf(x), 1) = Uninit)
    BY <1>3, <1>5 DEF IInv, Values
  <2> QED
    BY <1>3, <1>5, <1>7, <2>1 DEF IInv, Values
<1>9. Locals /\ CallWell(t)
  BY DEF IInv, Types, Well
<1>10. Locals'
  BY <1>1, <1>2, <1>7, <1>8, <1>9 DEF Locals, Label, PutLabel
<1>11. /\ pc'[t] = "putValue" /\ old'[t] = v /\ e'[t] = x /\ key'[t] = key[t]
       /\ \A u \in Thread \ {t} : Still(u)
  BY <1>1, <1>2, <1>3, <1>7, <1>9 DEF Locals, Still
<1>12. Well(t)'
  <2>1. SearchWell(t)'
    <3>1. x \in Linked' /\ KeyAt(x)' = KeyAt(x) /\ Current(ValueOf(x))' = v
      BY <1>2, <1>3, <1>6, <1>7, Same
    <3> QED
      BY <1>2, <1>3, <1>11, <3>1 DEF SearchWell, AbsentLabel, MakeLabel
  <2> QED
    BY <1>2, <1>9, <1>11, <2>1
      DEF Well, CallWell, WalkWell, MakeWell, WalkLabel, MakeLabel, PutLabel
<1>13. t \notin MayMake'
  BY <1>11 DEF MayMake
<1> QED
  BY <1>2, <1>6, <1>10, <1>11, <1>12, <1>13, Quiet

(* A walk goes on to the entry of its bucket that was made before.         *)
LEMMA Advancing ==
  ASSUME IInv, NEW t \in Thread, NEW from \in WalkLabel, NEW walk, NEW end, Advance(t, from, walk, end)
  PROVE  /\ pc[t] = from /\ e[t] \in In(Home(t)) /\ KeyAt(e[t]) # key[t] /\ Home(t) \in Bucket
         /\ hist' = hist /\ sc' = sc /\ MemType(Loc, Content)'
         /\ \A u \in Thread : cur[u] \subseteq cur'[u]
         /\ UNCHANGED <<key, value, first, old, entries, puts, gets>>
         /\ \E p \in Entry \cup {null} :
              /\ e' = [e EXCEPT ![t] = p] /\ e'[t] = p
              /\ pc' = [pc EXCEPT ![t] = IF p = null THEN end ELSE walk]
              /\ p = Current(NextOf(e[t])) /\ IsLast(p, {y \in In(Home(t)) : y < e[t]})
              /\ p # null => AtEntry(t, Home(t), p)'
<1>1. PICK i : /\ Load(t, NextOf(e[t]), i, OrderNext)
               /\ e' = [e EXCEPT ![t] = Val(NextOf(e[t]), i)]
               /\ MoveTo(t, IF e'[t] = null THEN end ELSE walk)
  BY DEF Advance
<1>2. /\ pc[t] = from /\ e[t] # null /\ KeyAt(e[t]) # key[t]
      /\ UNCHANGED <<key, value, first, old, entries, puts, gets>>
  BY DEF Advance, Found
<1>3. PICK b \in Bucket : b = Home(t)
  BY <1>2, HomeType DEF WalkLabel
<1>4. PICK x : x = e[t] /\ AtEntry(t, b, x)
  BY <1>2, <1>3 DEF IInv, Well, WalkWell, AtEntry
<1>5. x \in In(b) /\ x \in Linked /\ In(b) \subseteq Entry /\ Entry \subseteq Nat /\ x \in Nat
  BY <1>4, HeadOf, Ranges DEF AtEntry
<1>6. NextOf(x) \in Loc /\ Knows(t, NextOf(x))
  <2>1. NextOf(x) \in Loc
    BY <1>5, Locations
  <2>2. Newest(NextOf(x)) \in Nat /\ <<NextOf(x), 1>> \in cur[t]
    BY <2>1, Lengths DEF IInv, Handover, Initials
  <2>3. \A j \in 2..Newest(NextOf(x)) : <<NextOf(x), j>> \in cur[t]
    <3>1. x <= x
      BY <1>5
    <3>2. KnowsEntry(cur[t], x)
      BY <1>4, <1>5, <3>1 DEF AtEntry
    <3> QED
      BY <3>2 DEF KnowsEntry, Carries
  <2> QED
    BY <2>1, <2>2, <2>3 DEF Knows
<1>7. i = Newest(NextOf(x))
  BY <1>1, <1>4, <1>6, Known DEF Load
<1>8. /\ hist' = hist /\ sc' = sc /\ MemType(Loc, Content)'
      /\ \A u \in Thread : cur[u] \subseteq cur'[u]
  BY <1>1, <1>4, <1>6, Loading
<1>9. PICK p : p = Current(NextOf(x)) /\ p = Val(NextOf(e[t]), i)
  BY <1>4, <1>7 DEF Current
<1>10. IsLast(p, {y \in In(b) : y < x})
  <2>1. BucketOf(KeyAt(x)) = b
    BY <1>5 DEF In
  <2> QED
    BY <1>5, <1>9, <2>1 DEF IInv, Lists
<1>11. p \in Entry \cup {null} /\ (p # null => p \in In(b) /\ p < x)
  BY <1>5, <1>10 DEF IsLast
<1>12. p # null => AtEntry(t, b, p)'
  <2>1. ASSUME p # null, NEW y \in In(b), y <= p
        PROVE  KnowsEntry(cur[t], y)
    <3>1. y \in Nat /\ p \in Nat /\ p < x
      BY <1>5, <1>11, <2>1
    <3>2. y <= x
      BY <1>5, <2>1, <3>1
    <3> QED
      BY <1>4, <3>2 DEF AtEntry
  <2>2. p # null => AtEntry(t, b, p)
    BY <1>11, <2>1 DEF AtEntry
  <2> QED
    BY <1>2, <1>8, <2>2, AtEntryKept
<1>13. p # null => AtEntry(t, Home(t), p)'
  <2>1. Home(t)' = b
    BY <1>2, <1>3 DEF Home
  <2> QED
    BY <1>12, <2>1 DEF AtEntry
<1>14. e' = [e EXCEPT ![t] = p] /\ e'[t] = p
  BY <1>1, <1>9 DEF IInv, Types, Locals
<1> QED
  BY <1>1, <1>2, <1>3, <1>4, <1>5, <1>8, <1>9, <1>10, <1>11, <1>13, <1>14 DEF MoveTo

(* What a walk passes: nothing of the bucket is between two entries.       *)
LEMMA Between ==
  ASSUME NEW S, S \subseteq Nat, NEW x \in S, NEW p, IsLast(p, {y \in S : y < x}), null \notin Nat
  PROVE  /\ p = null => \A y \in S : x <= y
         /\ p # null => \A y \in S : p < y => x <= y
<1>1. ASSUME p = null, NEW y \in S
      PROVE  x <= y
  BY <1>1 DEF IsLast
<1>2. ASSUME p # null, NEW y \in S, p < y
      PROVE  x <= y
  <2>1. p \in S /\ (y < x => y <= p)
    BY <1>2 DEF IsLast
  <2> QED
    BY <1>2, <2>1
<1> QED
  BY <1>1, <1>2

(* e = e->next in put(), with or without the end of the list.              *)
LEMMA PutNextEntryStep ==
  ASSUME IInv, NEW t \in Thread, Put_NextEntry(t)
  PROVE  IInv'
<1>1. Advance(t, "putWalk", "putWalk", "newEntry") /\ "putWalk" \in WalkLabel
  BY DEF Put_NextEntry, WalkLabel
<1>2. PICK b \in Bucket : b = Home(t)
  BY <1>1, Advancing
<1>3. PICK x : x = e[t]
  OBVIOUS
<1>4. PICK p \in Entry \cup {null} :
         /\ e' = [e EXCEPT ![t] = p] /\ e'[t] = p
         /\ pc' = [pc EXCEPT ![t] = IF p = null THEN "newEntry" ELSE "putWalk"]
         /\ IsLast(p, {y \in In(b) : y < x})
         /\ p # null => AtEntry(t, Home(t), p)'
  BY <1>1, <1>2, <1>3, Advancing
<1>5. /\ pc[t] = "putWalk" /\ x \in In(b) /\ KeyAt(x) # key[t]
      /\ hist' = hist /\ sc' = sc /\ MemType(Loc, Content)'
      /\ \A u \in Thread : cur[u] \subseteq cur'[u]
      /\ UNCHANGED <<key, value, first, old, entries, puts, gets>>
  BY <1>1, <1>2, <1>3, Advancing
<1>6. Locals /\ CallWell(t) /\ SearchWell(t)
  BY DEF IInv, Types, Well
<1>7. /\ pc'[t] = (IF p = null THEN "newEntry" ELSE "putWalk")
      /\ key'[t] = key[t] /\ first'[t] = first[t] /\ value'[t] = value[t]
      /\ \A u \in Thread \ {t} : Still(u)
  BY <1>4, <1>5, <1>6 DEF Locals, Still
<1>8. Locals'
  BY <1>4, <1>5, <1>6 DEF Locals, Label, PutLabel
<1>9. In(b) \subseteq Nat /\ (\A y \in In(b) : x < y => KeyAt(y) # key[t])
  BY <1>2, <1>3, <1>5, <1>6, HeadOf, Ranges DEF SearchWell
<1>10. \A y \in In(b) : x <= y => KeyAt(y) # key[t]
  BY <1>5, <1>9
<1>11. /\ p = null => \A y \in In(b) : KeyAt(y) # key[t]
       /\ p # null => \A y \in In(b) : p < y => KeyAt(y) # key[t]
  BY <1>4, <1>5, <1>9, <1>10, Between, Longest
<1>12. Well(t)'
  <2>1. /\ In(b)' = In(b) /\ Home(t)' = b /\ Current(First(t))' = Current(First(t))
        /\ \A y : KeyAt(y)' = KeyAt(y)
    BY <1>2, <1>5, Same DEF Home, First, Current, Newest, Val
  <2>2. WalkWell(t)'
    BY <1>4, <1>7, <2>1 DEF WalkWell, AtEntry, WalkLabel
  <2>3. SearchWell(t)'
    BY <1>4, <1>5, <1>6, <1>7, <1>11, <2>1 DEF SearchWell, AbsentLabel, MakeLabel
  <2> QED
    BY <1>5, <1>6, <1>7, <2>2, <2>3 DEF Well, CallWell, MakeWell, MakeLabel, PutLabel
<1>13. t \in MayMake /\ Holds(t)
  BY <1>5 DEF MayMake, Holds, PutLabel
<1> QED
  BY <1>5, <1>7, <1>8, <1>12, <1>13, Quiet

(* The same in the second walk of get().                                   *)
LEMMA GetNextEntryAgainStep ==
  ASSUME IInv, NEW t \in Thread, Get_NextEntryAgain(t)
  PROVE  /\ IInv' /\ hist' = hist /\ entries' = entries /\ key[t] \in Key
         /\ e'[t] = null => \A y \in In(Home(t)) : KeyAt(y) # key[t]
<1>1. Advance(t, "walkAgain", "walkAgain", "unlock") /\ "walkAgain" \in WalkLabel
  BY DEF Get_NextEntryAgain, WalkLabel
<1>2. PICK b \in Bucket : b = Home(t)
  BY <1>1, Advancing
<1>3. PICK x : x = e[t]
  OBVIOUS
<1>4. PICK p \in Entry \cup {null} :
         /\ e' = [e EXCEPT ![t] = p] /\ e'[t] = p
         /\ pc' = [pc EXCEPT ![t] = IF p = null THEN "unlock" ELSE "walkAgain"]
         /\ IsLast(p, {y \in In(b) : y < x})
         /\ p # null => AtEntry(t, Home(t), p)'
  BY <1>1, <1>2, <1>3, Advancing
<1>5. /\ pc[t] = "walkAgain" /\ x \in In(b) /\ KeyAt(x) # key[t]
      /\ hist' = hist /\ sc' = sc /\ MemType(Loc, Content)'
      /\ \A u \in Thread : cur[u] \subseteq cur'[u]
      /\ UNCHANGED <<key, value, first, old, entries, puts, gets>>
  BY <1>1, <1>2, <1>3, Advancing
<1>6. Locals /\ CallWell(t) /\ SearchWell(t)
  BY DEF IInv, Types, Well
<1>7. /\ pc'[t] = (IF p = null THEN "unlock" ELSE "walkAgain")
      /\ key'[t] = key[t] /\ \A u \in Thread \ {t} : Still(u)
  BY <1>4, <1>5, <1>6 DEF Locals, Still
<1>8. Locals'
  BY <1>4, <1>5, <1>6 DEF Locals, Label, GetLabel
<1>9. In(b) \subseteq Nat /\ (\A y \in In(b) : x < y => KeyAt(y) # key[t])
  BY <1>2, <1>3, <1>5, <1>6, HeadOf, Ranges DEF SearchWell
<1>10. \A y \in In(b) : x <= y => KeyAt(y) # key[t]
  BY <1>5, <1>9
<1>11. /\ p = null => \A y \in In(b) : KeyAt(y) # key[t]
       /\ p # null => \A y \in In(b) : p < y => KeyAt(y) # key[t]
  BY <1>4, <1>5, <1>9, <1>10, Between, Longest
<1>12. Well(t)'
  <2>1. In(b)' = In(b) /\ Home(t)' = b /\ \A y : KeyAt(y)' = KeyAt(y)
    BY <1>2, <1>5, Same DEF Home
  <2>2. WalkWell(t)'
    BY <1>4, <1>7, <2>1 DEF WalkWell, AtEntry, WalkLabel
  <2>3. SearchWell(t)'
    BY <1>4, <1>7, <1>11, <2>1 DEF SearchWell, AbsentLabel, MakeLabel
  <2> QED
    BY <1>5, <1>6, <1>7, <2>2, <2>3 DEF Well, CallWell, MakeWell, MakeLabel, PutLabel
<1>13. t \notin MayMake' /\ Holds(t)
  BY <1>5, <1>7 DEF MayMake, Holds
<1>14. IInv'
  BY <1>5, <1>7, <1>8, <1>12, <1>13, Quiet
<1>15. key[t] \in Key
  BY <1>5, HomeType
<1> QED
  BY <1>2, <1>4, <1>5, <1>11, <1>14, <1>15

(* get() reads the head of the list, or one that has been replaced.        *)
LEMMA GetLoadFirstStep ==
  ASSUME IInv, NEW t \in Thread, Get_LoadFirst(t)
  PROVE  IInv'
<1>1. PICK k, i :
         /\ k \in Key /\ key' = [key EXCEPT ![t] = k]
         /\ Load(t, Table(BucketOf(k)), i, OrderGetFirst)
         /\ first' = [first EXCEPT ![t] = Val(Table(BucketOf(k)), i)]
         /\ e' = [e EXCEPT ![t] = Val(Table(BucketOf(k)), i)]
         /\ MoveTo(t, IF e'[t] = null THEN "lock" ELSE "walk")
  BY DEF Get_LoadFirst
<1>2. /\ pc[t] = "idle" /\ ~Holds(t) /\ gets < MaxGets /\ gets' = gets + 1
      /\ UNCHANGED <<value, old, entries, puts>>
  BY DEF Get_LoadFirst, Holds, PutLabel
<1>3. PICK b \in Bucket : b = BucketOf(k)
  BY <1>1, KeyType
<1>4. PICK p : p = Val(Table(b), i)
  OBVIOUS
<1>5. Table(b) \in Loc /\ null \notin In(b) /\ In(b) \subseteq Entry /\ Entry \subseteq Nat
  BY HeadOf, Locations, Ranges
<1>6. /\ hist' = hist /\ sc' = sc /\ MemType(Loc, Content)'
      /\ \A u \in Thread : cur[u] \subseteq cur'[u]
      /\ i \in 1..Newest(Table(b)) /\ hist[Table(b)][i].view \subseteq cur'[t]
  BY <1>1, <1>3, <1>5, Loading DEF OrderGetFirst, Acquiring
<1>7. p \in In(b) \cup {null}
  BY <1>4, <1>6 DEF IInv, Lists
<1>8. Locals /\ gets' \in 0..MaxGets
  BY <1>2, Longest DEF IInv, Types, Locals
<1>9. /\ pc'[t] = (IF p = null THEN "lock" ELSE "walk")
      /\ e'[t] = p /\ first'[t] = p /\ key'[t] = k
      /\ \A u \in Thread \ {t} : Still(u)
  BY <1>1, <1>2, <1>3, <1>4, <1>8 DEF MoveTo, Locals, Still
<1>10. Locals'
  BY <1>1, <1>2, <1>3, <1>4, <1>5, <1>7, <1>8 DEF MoveTo, Locals, Label, GetLabel
<1>11. p # null => AtEntry(t, b, p)'
  <2>1. ASSUME p # null, NEW y \in In(b), y <= p
        PROVE  KnowsEntry(cur[t], y)'
    <3>1. KnowsEntry(hist[Table(b)][i].view, y)
      BY <1>4, <1>6, <2>1 DEF IInv, Handover, Trails
    <3>2. PICK view : view = cur'[t]
      OBVIOUS
    <3>3. KnowsEntry(view, y)
      BY <1>6, <3>1, <3>2 DEF KnowsEntry, Carries
    <3>4. KnowsEntry(view, y)'
      BY <1>2, <1>6, <3>3, Same
    <3> QED
      BY <3>2, <3>4 DEF KnowsEntry
  <2>2. In(b)' = In(b)
    BY <1>2, <1>6, Same
  <2> QED
    BY <1>7, <2>1, <2>2 DEF AtEntry
<1>12. Well(t)'
  <2>1. In(b)' = In(b) /\ Home(t)' = b /\ \A y : KeyAt(y)' = KeyAt(y)
    BY <1>2, <1>3, <1>6, <1>9, Same DEF Home
  <2>2. WalkWell(t)'
    BY <1>9, <1>11, <2>1 DEF WalkWell, AtEntry, WalkLabel
  <2>3. SearchWell(t)'
    <3>1. p # null => \A y \in In(b) : ~(p < y /\ y <= p)
      <4>1. p # null => p \in Nat
        BY <1>5, <1>7
      <4>2. \A m, n \in Nat : ~(m < n /\ n <= m)
        OBVIOUS
      <4> QED
        BY <1>5, <4>1, <4>2
    <3> QED
      BY <1>7, <1>9, <2>1, <3>1 DEF SearchWell, AbsentLabel, MakeLabel
  <2> QED
    BY <1>1, <1>9, <2>2, <2>3 DEF Well, CallWell, MakeWell, MakeLabel, PutLabel
<1>13. t \notin MayMake' /\ ~Holds(t)'
  BY <1>9 DEF MayMake, Holds, PutLabel
<1> QED
  BY <1>2, <1>6, <1>9, <1>10, <1>12, <1>13, Quiet

(* An entry found by the first walk has its last value: what was stored    *)
(* after the entry was made is known to the seq_cst load.                  *)
LEMMA LastValue ==
  ASSUME IInv, NEW t \in Thread, NEW x \in Linked, KnowsEntry(cur[t], x),
         NEW i \in Readable(t, ValueOf(x), seq_cst)
  PROVE  Val(ValueOf(x), i) = Current(ValueOf(x)) /\ Current(ValueOf(x)) \in Value
<1> DEFINE n == Newest(ValueOf(x))
<1>1. ValueOf(x) \in Loc /\ n \in Nat /\ n >= 1
  BY Bound, Locations, Lengths
<1>2. i \in 1..n /\ \A j \in (i + 1)..n : <<ValueOf(x), j>> \notin cur[t] \cup sc
  BY <1>1 DEF Readable, Seen, IInv, Chain, Linear, Event, Newest
<1>3. i = n
  <2> SUFFICES ASSUME i # n
               PROVE  FALSE
    OBVIOUS
  <2>1. n \in 2..n /\ n \in (i + 1)..n
    BY <1>1, <1>2
  <2>2. Made(x, n) \/ <<ValueOf(x), n>> \in sc
    BY <2>1 DEF IInv, Values
  <2>3. Made(x, n) => <<ValueOf(x), n>> \in cur[t]
    BY DEF Made, KnowsEntry
  <2> QED
    BY <1>2, <2>1, <2>2, <2>3
<1>4. Current(ValueOf(x)) \in Value
  BY <1>1 DEF IInv, Values, Current
<1> QED
  BY <1>3, <1>4 DEF Current

(* The end of a call.                                                      *)
LEMMA Returning ==
  ASSUME IInv, NEW t \in Thread, Return(t), entries' = entries, puts' = puts, gets' = gets
  PROVE  /\ Locals' /\ pc'[t] = "idle" /\ Well(t)' /\ \A u \in Thread \ {t} : Still(u)
         /\ t \notin MayMake' /\ ~Holds(t)'
<1>1. Locals
  BY DEF IInv, Types
<1>2. Locals' /\ pc'[t] = "idle" /\ \A u \in Thread \ {t} : Still(u)
  BY <1>1 DEF Return, MoveTo, Locals, Still, Label
<1> QED
  BY <1>2 DEF Well, CallWell, WalkWell, SearchWell, MakeWell, WalkLabel, MakeLabel, AbsentLabel,
              PutLabel, MayMake, Holds

(* get() reads the value of the entry it has found, and returns it.        *)
LEMMA GetLoadValueStep ==
  ASSUME IInv, NEW t \in Thread, Get_LoadValue(t)
  PROVE  /\ IInv' /\ hist' = hist /\ entries' = entries /\ key[t] \in Key
         /\ e[t] \in Linked /\ KeyAt(e[t]) = key[t] /\ Answer("get", t, Current(ValueOf(e[t])))
<1>1. PICK i : /\ Load(t, ValueOf(e[t]), i, OrderGetValue)
               /\ IF Val(ValueOf(e[t]), i) # 0
                  THEN Answer("get", t, Val(ValueOf(e[t]), i)) /\ Return(t)
                  ELSE MoveTo(t, "lock") /\ UNCHANGED answer /\ UNCHANGED locals
  BY DEF Get_LoadValue
<1>2. pc[t] = "walk" /\ KeyAt(e[t]) = key[t] /\ UNCHANGED <<entries, puts, gets>>
  BY DEF Get_LoadValue, Found
<1>3. PICK x : x = e[t] /\ AtEntry(t, Home(t), x)
  BY <1>2 DEF IInv, Well, WalkWell, WalkLabel, AtEntry
<1>4. x \in In(Home(t)) /\ x \in Linked /\ key[t] \in Key /\ x <= x
  <2>1. key[t] \in Key /\ Home(t) \in Bucket
    BY <1>2, HomeType
  <2>2. x \in In(Home(t)) /\ x \in Linked /\ x \in Nat
    BY <1>3, <2>1, HeadOf, Ranges DEF AtEntry
  <2> QED
    BY <2>1, <2>2
<1>5. ValueOf(x) \in Loc /\ KnowsEntry(cur[t], x)
  BY <1>3, <1>4, Bound, Locations DEF AtEntry
<1>6. i \in Readable(t, ValueOf(x), seq_cst)
  BY <1>1, <1>3 DEF Load, OrderGetValue
<1>7. Val(ValueOf(x), i) = Current(ValueOf(x)) /\ Current(ValueOf(x)) # 0
  BY <1>4, <1>5, <1>6, LastValue, Ranges
<1>8. Answer("get", t, Current(ValueOf(e[t]))) /\ Return(t)
  BY <1>1, <1>3, <1>7
<1>9. /\ hist' = hist /\ sc' = sc /\ MemType(Loc, Content)'
      /\ \A u \in Thread : cur[u] \subseteq cur'[u]
  BY <1>1, <1>3, <1>5, Loading
<1>10. IInv'
  BY <1>2, <1>8, <1>9, Returning, Quiet
<1> QED
  BY <1>2, <1>3, <1>4, <1>8, <1>9, <1>10

(* e = e->next in the first walk of get(): at the end of the list the head *)
(* it began at has not got the key behind it.                              *)
LEMMA GetNextEntryStep ==
  ASSUME IInv, NEW t \in Thread, Get_NextEntry(t)
  PROVE  IInv'
<1>1. Advance(t, "walk", "walk", "lock") /\ "walk" \in WalkLabel
  BY DEF Get_NextEntry, WalkLabel
<1>2. PICK b \in Bucket : b = Home(t)
  BY <1>1, Advancing
<1>3. PICK x : x = e[t]
  OBVIOUS
<1>4. PICK p \in Entry \cup {null} :
         /\ e' = [e EXCEPT ![t] = p] /\ e'[t] = p
         /\ pc' = [pc EXCEPT ![t] = IF p = null THEN "lock" ELSE "walk"]
         /\ IsLast(p, {y \in In(b) : y < x})
         /\ p # null => AtEntry(t, Home(t), p)'
  BY <1>1, <1>2, <1>3, Advancing
<1>5. /\ pc[t] = "walk" /\ x \in In(b) /\ KeyAt(x) # key[t]
      /\ hist' = hist /\ sc' = sc /\ MemType(Loc, Content)'
      /\ \A u \in Thread : cur[u] \subseteq cur'[u]
      /\ UNCHANGED <<key, value, first, old, entries, puts, gets>>
  BY <1>1, <1>2, <1>3, Advancing
<1>6. Locals /\ CallWell(t) /\ SearchWell(t)
  BY DEF IInv, Types, Well
<1>7. /\ pc'[t] = (IF p = null THEN "lock" ELSE "walk")
      /\ key'[t] = key[t] /\ first'[t] = first[t] /\ \A u \in Thread \ {t} : Still(u)
  BY <1>4, <1>5, <1>6 DEF Locals, Still
<1>8. Locals'
  BY <1>4, <1>5, <1>6 DEF Locals, Label, GetLabel
<1>9. /\ In(b) \subseteq Nat /\ first[t] \in In(b)
      /\ \A y \in In(b) : x < y /\ y <= first[t] => KeyAt(y) # key[t]
  BY <1>2, <1>3, <1>5, <1>6, HeadOf, Ranges DEF SearchWell
<1>10. \A y \in In(b) : x <= y /\ y <= first[t] => KeyAt(y) # key[t]
  BY <1>5, <1>9
<1>11. /\ p = null => \A y \in In(b) : y <= first[t] => KeyAt(y) # key[t]
       /\ p # null => \A y \in In(b) : p < y /\ y <= first[t] => KeyAt(y) # key[t]
  BY <1>4, <1>5, <1>9, <1>10, Between, Longest
<1>12. Well(t)'
  <2>1. In(b)' = In(b) /\ Home(t)' = b /\ \A y : KeyAt(y)' = KeyAt(y)
    BY <1>2, <1>5, Same DEF Home
  <2>2. WalkWell(t)'
    BY <1>4, <1>7, <2>1 DEF WalkWell, AtEntry, WalkLabel
  <2>3. first[t] # null
    BY <1>9, Longest
  <2>4. SearchWell(t)'
    BY <1>4, <1>7, <1>9, <1>11, <2>1, <2>3 DEF SearchWell, AbsentLabel, MakeLabel
  <2> QED
    BY <1>5, <1>6, <1>7, <2>2, <2>4 DEF Well, CallWell, MakeWell, MakeLabel, PutLabel
<1>13. t \notin MayMake' /\ ~Holds(t)'
  BY <1>7 DEF MayMake, Holds, PutLabel
<1> QED
  BY <1>5, <1>7, <1>8, <1>12, <1>13, Quiet

(* get() looks at the head of the list again, under the mutex: if it is    *)
(* the one it knows, or the list is empty, the key is not there.           *)
LEMMA GetRecheckStep ==
  ASSUME IInv, NEW t \in Thread, Get_Recheck(t)
  PROVE  /\ IInv' /\ hist' = hist /\ entries' = entries /\ key[t] \in Key
         /\ pc'[t] = "unlock" => \A y \in In(Home(t)) : KeyAt(y) # key[t]
<1>1. PICK i :
         /\ Load(t, First(t), i, relaxed)
         /\ LET again == e[t] # null \/ first[t] # Val(First(t), i)
            IN  /\ MoveTo(t, IF again /\ Val(First(t), i) # null THEN "walkAgain" ELSE "unlock")
                /\ e' = IF again THEN [e EXCEPT ![t] = Val(First(t), i)] ELSE e
  BY DEF Get_Recheck
<1>2. /\ pc[t] = "recheck" /\ Holds(t)
      /\ UNCHANGED <<key, value, first, old, entries, puts, gets>>
  BY DEF Get_Recheck, Holds
<1>3. PICK b \in Bucket : b = Home(t)
  BY <1>2, HomeType
<1>4. PICK p : p = Current(Table(b))
  OBVIOUS
<1>5. Val(First(t), i) = p
  BY <1>1, <1>2, <1>3, <1>4, LoadHead
<1>6. p \in In(b) \cup {null} /\ IsLast(p, In(b)) /\ null \notin In(b) /\ In(b) \subseteq Entry
  BY <1>4, HeadOf
<1>7. /\ hist' = hist /\ sc' = sc /\ MemType(Loc, Content)'
      /\ \A u \in Thread : cur[u] \subseteq cur'[u]
  BY <1>1, <1>2, HomeType, Loading
<1>8. Locals /\ CallWell(t) /\ SearchWell(t) /\ key[t] \in Key
  BY <1>2, HomeType DEF IInv, Types, Well
<1>9. /\ e[t] = null
      /\ \A y \in In(b) : first[t] # null /\ y <= first[t] => KeyAt(y) # key[t]
  BY <1>2, <1>3, <1>8 DEF SearchWell
<1>10. /\ pc' = [pc EXCEPT ![t] = IF first[t] # p /\ p # null THEN "walkAgain" ELSE "unlock"]
       /\ e' = IF first[t] # p THEN [e EXCEPT ![t] = p] ELSE e
  BY <1>1, <1>5, <1>9 DEF MoveTo
<1>11. /\ pc'[t] = (IF first[t] # p /\ p # null THEN "walkAgain" ELSE "unlock")
       /\ pc'[t] = "walkAgain" => e'[t] = p
       /\ key'[t] = key[t] /\ \A u \in Thread \ {t} : Still(u)
  BY <1>2, <1>8, <1>10 DEF Locals, Still
<1>12. Locals'
  BY <1>2, <1>6, <1>8, <1>10 DEF Locals, Label, GetLabel
<1>13. pc'[t] = "unlock" => \A y \in In(b) : KeyAt(y) # key[t]
  BY <1>6, <1>9, <1>11 DEF IsLast
<1>14. Well(t)'
  <2>1. In(b)' = In(b) /\ Home(t)' = b /\ \A y : KeyAt(y)' = KeyAt(y)
    BY <1>2, <1>3, <1>7, Same DEF Home
  <2>2. p # null => AtEntry(t, b, p)'
    <3>1. p # null => AtEntry(t, b, p)
      BY <1>2, <1>3, <1>6, HolderAtEntry
    <3> QED
      BY <1>2, <1>7, <3>1, AtEntryKept
  <2>3. WalkWell(t)'
    BY <1>11, <2>1, <2>2 DEF WalkWell, AtEntry, WalkLabel
  <2>4. SearchWell(t)'
    <3>1. p # null => \A y \in In(b) : ~(p < y)
      <4>1. \A m, n \in Nat : n <= m => ~(m < n)
        OBVIOUS
      <4>2. In(b) \subseteq Nat
        BY <1>6, Ranges
      <4> QED
        BY <1>6, <4>1, <4>2 DEF IsLast
    <3> QED
      BY <1>11, <2>1, <3>1 DEF SearchWell, AbsentLabel, MakeLabel
  <2> QED
    BY <1>2, <1>8, <1>11, <2>3, <2>4 DEF Well, CallWell, MakeWell, MakeLabel, PutLabel
<1>15. t \notin MayMake'
  BY <1>11 DEF MayMake
<1>16. IInv'
  BY <1>2, <1>7, <1>11, <1>12, <1>14, <1>15, Quiet
<1> QED
  BY <1>2, <1>3, <1>7, <1>8, <1>13, <1>16

(* get() reads the value under the mutex.                                  *)
LEMMA GetLoadValueAgainStep ==
  ASSUME IInv, NEW t \in Thread, Get_LoadValueAgain(t)
  PROVE  /\ IInv' /\ hist' = hist /\ entries' = entries /\ key[t] \in Key
         /\ e[t] \in Linked /\ KeyAt(e[t]) = key[t] /\ Answer("get", t, Current(ValueOf(e[t])))
<1>1. PICK i : Load(t, ValueOf(e[t]), i, relaxed) /\ Answer("get", t, Val(ValueOf(e[t]), i))
  BY DEF Get_LoadValueAgain
<1>2. /\ pc[t] = "walkAgain" /\ Holds(t) /\ pc' = [pc EXCEPT ![t] = "unlock"]
      /\ KeyAt(e[t]) = key[t] /\ UNCHANGED <<key, value, e, first, old, entries, puts, gets>>
  BY DEF Get_LoadValueAgain, Goto, MoveTo, Found, Holds, locals
<1>3. PICK x : x = e[t] /\ x \in In(Home(t)) /\ x \in Linked /\ x \in Entry /\ key[t] \in Key
  BY <1>2, Bound, HomeType DEF IInv, Well, WalkWell, WalkLabel, In
<1>4. ValueOf(x) \in Loc /\ Knows(t, ValueOf(x))
  BY <1>2, <1>3, Locations, HolderKnows
<1>5. i = Newest(ValueOf(x))
  BY <1>1, <1>3, <1>4, Known DEF Load
<1>6. /\ hist' = hist /\ sc' = sc /\ MemType(Loc, Content)'
      /\ \A u \in Thread : cur[u] \subseteq cur'[u]
  BY <1>1, <1>3, <1>4, Loading
<1>7. Locals
  BY DEF IInv, Types
<1>8. Locals'
  BY <1>2, <1>7 DEF Locals, Label
<1>9. pc'[t] = "unlock" /\ key'[t] = key[t] /\ \A u \in Thread \ {t} : Still(u)
  BY <1>2, <1>7 DEF Locals, Still
<1>10. Well(t)' /\ t \notin MayMake'
  BY <1>3, <1>9 DEF Well, CallWell, WalkWell, SearchWell, MakeWell, WalkLabel, MakeLabel, AbsentLabel,
                    PutLabel, MayMake
<1>11. IInv'
  BY <1>2, <1>6, <1>8, <1>9, <1>10, Quiet
<1> QED
  BY <1>1, <1>2, <1>3, <1>5, <1>6, <1>11 DEF Current

-----------------------------------------------------------------------------
(* A step that writes to mutexes only.                                     *)
LEMMA MutexOnly ==
  ASSUME IInv, NEW s, \A l \in Loc \ {Mutex(s)} : hist'[l] = hist[l], entries' = entries, sc' = sc,
         \A u \in Thread : cur[u] \subseteq cur'[u]
  PROVE  /\ Kept /\ Values' /\ Fresh' /\ Initials'
         /\ \A r : Guarded(r)' = Guarded(r)
         /\ \A r, l : l \in Guarded(r) => hist'[l] = hist[l]
         /\ \A x \in Entry : hist'[ValueOf(x)] = hist[ValueOf(x)]
<1>1. /\ \A b \in Bucket : hist'[Table(b)] = hist[Table(b)]
      /\ \A x \in Entry : \A l \in Fields(x) : hist'[l] = hist[l]
  BY Locations DEF Fields
<1>2. \A x \in Entry : /\ hist'[KeyOf(x)] = hist[KeyOf(x)] /\ hist'[ValueOf(x)] = hist[ValueOf(x)]
                       /\ hist'[NextOf(x)] = hist[NextOf(x)]
  BY <1>1 DEF Fields
<1>3. /\ \A b \in Bucket : Current(Table(b))' = Current(Table(b))
      /\ \A x \in Entry : KeyAt(x)' = KeyAt(x) /\ Current(NextOf(x))' = Current(NextOf(x))
  BY <1>1, <1>2 DEF Current, KeyAt, Newest, Val
<1>4. Linked' = Linked
  <2>1. 1..entries \subseteq Entry
    BY Bound
  <2>2. /\ {Current(Table(b)) : b \in Bucket}' = {Current(Table(b)) : b \in Bucket}
        /\ {Current(NextOf(x)) : x \in 1..entries}' = {Current(NextOf(x)) : x \in 1..entries}
    BY <1>3, <2>1
  <2> QED
    BY <2>2 DEF Linked
<1>5. Kept
  BY <1>1, <1>2, <1>4, Bound DEF Kept
<1>6. Values' /\ Fresh'
  <2>1. \A x \in Entry : /\ Newest(ValueOf(x))' = Newest(ValueOf(x))
                         /\ \A i : Val(ValueOf(x), i)' = Val(ValueOf(x), i)
                         /\ (Blank(KeyOf(x)) => Blank(KeyOf(x))')
                         /\ (Blank(ValueOf(x)) => Blank(ValueOf(x))')
                         /\ (Blank(NextOf(x)) => Blank(NextOf(x))')
    BY <1>2 DEF Newest, Val, Blank
  <2> QED
    BY <1>4, <2>1, Bound DEF IInv, Values, Fresh, Made
<1>7. \A r : Guarded(r)' = Guarded(r)
  BY <1>3, Bound DEF Guarded
<1>8. \A r, l : l \in Guarded(r) => hist'[l] = hist[l]
  BY <1>1, Bound DEF Guarded
<1>9. Initials'
  BY DEF IInv, Handover, Initials
<1> QED
  BY <1>2, <1>5, <1>6, <1>7, <1>8, <1>9

(* Taking a mutex: the holder takes over what the mutex carries.           *)
LEMMA Locking ==
  ASSUME IInv, NEW t \in Thread, NEW k \in Key, NEW m, m = Mutex(SegmentOf(k)), Lock(t, k)
  PROVE  /\ MemType(Loc, Content)' /\ Chain' /\ sc' = sc /\ m \in Loc
         /\ \A l \in Loc \ {m} : hist'[l] = hist[l]
         /\ Current(m) = 0 /\ Current(m)' = 1 /\ Newest(m)' = Newest(m) + 1
         /\ \A u \in Thread : cur[u] \subseteq cur'[u]
         /\ hist[m][Newest(m)].view \subseteq cur'[t]
         /\ \A j \in 1..(Newest(m) + 1) : <<m, j>> \in cur'[t]
<1>1. m \in Loc /\ MemType(Loc, Content) /\ Newest(m) \in Nat /\ Newest(m) >= 1
  BY KeyType, Locations, Lengths
<1>2. Current(m) = 0 /\ ReadModifyWrite(t, m, Newest(m), 1, acquire)
  BY DEF Lock, Current
<1>3. /\ Appended(Loc, m) /\ hist'[m][Newest(m) + 1].id = Newest(m) + 1
      /\ hist'[m][Newest(m) + 1].val = 1
  BY <1>1, <1>2, ReadModifyWriteAtEnd, Ranges
<1>4. MemType(Loc, Content)' /\ Chain'
  BY <1>1, <1>2, <1>3, ReadModifyWriteType, AppendedLinear, Ranges DEF IInv, Chain
<1>5. Newest(m)' = Newest(m) + 1 /\ Current(m)' = 1 /\ \A l \in Loc \ {m} : hist'[l] = hist[l]
  BY <1>3 DEF Appended, Newest, Current, Val
<1>6. cur \in [Thread -> SUBSET Events(Loc)]
  BY <1>1 DEF MemType
<1>7. /\ cur'[t] = Observe(t, m, Newest(m), acquire) \cup {NextEvent(m)}
      /\ \A u \in Thread \ {t} : cur'[u] = cur[u]
  BY <1>2, <1>6 DEF ReadModifyWrite
<1>8. /\ cur[t] \subseteq cur'[t] /\ hist[m][Newest(m)].view \subseteq cur'[t]
      /\ Upto(m, Newest(m)) \subseteq cur'[t] /\ <<m, Newest(m) + 1>> \in cur'[t]
  BY <1>7 DEF Observe, NextEvent, Acquiring
<1>9. \A j \in 1..Newest(m) : <<m, j>> \in Upto(m, Newest(m))
  BY <1>1 DEF Upto, Event, IInv, Chain, Linear, Newest
<1>10. \A j \in 1..(Newest(m) + 1) : <<m, j>> \in cur'[t]
  BY <1>1, <1>8, <1>9
<1>11. sc' = sc
  BY <1>2 DEF ReadModifyWrite, JoinSC, acquire, seq_cst
<1> QED
  BY <1>1, <1>2, <1>4, <1>5, <1>7, <1>8, <1>10, <1>11

LEMMA LockStep ==
  ASSUME IInv, NEW t \in Thread, NEW k \in Key, Lock(t, k), entries' = entries,
         ~Holds(t), Holds(t)', key'[t] = k, \A u \in Thread \ {t} : Still(u),
         Locals', Room', Kept => Well(t)'
  PROVE  /\ IInv' /\ Kept /\ \A x \in Linked : Current(ValueOf(x))' = Current(ValueOf(x))
<1>1. PICK s, m : s \in Segment /\ s = SegmentOf(k) /\ m = Mutex(s)
  BY KeyType
<1>2. /\ MemType(Loc, Content)' /\ Chain' /\ sc' = sc /\ m \in Loc
      /\ \A l \in Loc \ {m} : hist'[l] = hist[l]
      /\ Current(m) = 0 /\ Current(m)' = 1 /\ Newest(m)' = Newest(m) + 1
      /\ \A u \in Thread : cur[u] \subseteq cur'[u]
      /\ hist[m][Newest(m)].view \subseteq cur'[t]
      /\ \A j \in 1..(Newest(m) + 1) : <<m, j>> \in cur'[t]
  BY <1>1, Locking
<1>3. /\ Kept /\ Values' /\ Fresh' /\ Initials'
      /\ \A r : Guarded(r)' = Guarded(r)
      /\ \A r, l : l \in Guarded(r) => hist'[l] = hist[l]
      /\ \A x \in Entry : hist'[ValueOf(x)] = hist[ValueOf(x)]
  BY <1>1, <1>2, MutexOnly
<1>4. ASSUME NEW u \in Thread, Holds(u)', u # t
      PROVE  /\ Holds(u) /\ Seg(u)' = Seg(u) /\ Seg(u) # s /\ Seg(u) \in Segment
             /\ Mutex(Seg(u)) \in Loc \ {m}
  <2>1. Holds(u) /\ Seg(u)' = Seg(u) /\ pc[u] # "idle"
    BY <1>4 DEF Still, Holds, Seg, PutLabel
  <2>2. Seg(u) # s
    BY <1>1, <1>2, <2>1 DEF IInv, Mutual
  <2> QED
    BY <1>1, <2>1, <2>2, HomeType, Locations
<1>5. Seg(t)' = s
  BY <1>1 DEF Seg
<1>6. \A r : Mutex(r) \in Loc \ {m} => Current(Mutex(r))' = Current(Mutex(r)) /\ hist'[Mutex(r)] = hist[Mutex(r)]
  BY <1>2 DEF Current, Newest, Val
<1>7. Mutual'
  <2>1. \A u \in Thread : Holds(u)' => u = t \/ Seg(u)' # s
    BY <1>4
  <2>2. \A u, w \in Thread : Holds(u)' /\ Holds(w)' /\ Seg(u)' = Seg(w)' => u = w
    BY <1>4, <1>5 DEF IInv, Mutual
  <2>3. ASSUME NEW u \in Thread, Holds(u)'
        PROVE  Current(Mutex(Seg(u)))' # 0
    <3>1. CASE u = t
      BY <1>1, <1>2, <1>5, <3>1 DEF Current, Newest, Val
    <3>2. CASE u # t
      <4>1. PICK r : r = Seg(u) /\ r = Seg(u)'
        BY <1>4, <2>3, <3>2
      <4>2. Current(Mutex(r)) # 0 /\ Mutex(r) \in Loc \ {m}
        BY <1>4, <2>3, <3>2, <4>1 DEF IInv, Mutual
      <4>3. Current(Mutex(r))' # 0
        BY <1>6, <4>2
      <4> QED
        BY <4>1, <4>3 DEF Current, Newest, Val
    <3> QED
      BY <3>1, <3>2
  <2> QED
    BY <2>2, <2>3 DEF Mutual
<1>8. Held'
  <2> SUFFICES ASSUME NEW u \in Thread, Holds(u)'
               PROVE  Knows(u, Mutex(Seg(u)))' /\ \A l \in Guarded(Seg(u))' : Knows(u, l)'
    BY DEF Held
  <2>1. CASE u = t
    <3>1. ASSUME NEW l \in Guarded(s)
          PROVE  Knows(t, l)'
      <4>1. Carries(hist[m][Newest(m)].view, l) /\ l \in Loc
        BY <1>1, <1>2, <3>1, GuardedIn DEF IInv, Handover, Passed
      <4>2. <<l, 1>> \in cur'[t] /\ Newest(l)' = Newest(l) /\ Newest(l) \in Nat
        BY <1>3, <3>1, <4>1, Lengths DEF Initials, Newest
      <4> QED
        BY <1>2, <4>1, <4>2 DEF Knows, Carries
    <3>2. Knows(t, m)'
      BY <1>2 DEF Knows
    <3>3. (\A l \in Guarded(s)' : Knows(t, l)') /\ Knows(t, Mutex(s))'
      BY <1>1, <1>3, <3>1, <3>2 DEF Knows, Newest
    <3> QED
      BY <1>5, <2>1, <3>3
  <2>2. CASE u # t
    <3>1. PICK r : r = Seg(u) /\ r = Seg(u)'
      BY <1>4, <2>2
    <3>2. Knows(u, Mutex(r)) /\ (\A l \in Guarded(r) : Knows(u, l)) /\ Mutex(r) \in Loc \ {m}
      BY <1>4, <2>2, <3>1 DEF IInv, Handover, Held
    <3>3. Knows(u, Mutex(r))' /\ \A l \in Guarded(r)' : Knows(u, l)'
      BY <1>2, <1>3, <1>6, <3>2 DEF Knows, Newest
    <3> QED
      BY <3>1, <3>3
  <2> QED
    BY <2>1, <2>2
<1>9. Passed'
  <2> SUFFICES ASSUME NEW r \in Segment, Current(Mutex(r))' = 0, NEW l \in Guarded(r)'
               PROVE  Carries(hist[Mutex(r)][Newest(Mutex(r))].view, l)'
    BY DEF Passed
  <2>1. r # s
    BY <1>1, <1>2 DEF Current, Newest, Val
  <2>2. Mutex(r) \in Loc \ {m} /\ l \in Guarded(r)
    BY <1>1, <1>3, <2>1, Locations
  <2>3. Carries(hist[Mutex(r)][Newest(Mutex(r))].view, l) /\ hist'[l] = hist[l]
    BY <1>3, <1>6, <2>2 DEF IInv, Handover, Passed
  <2>4. hist'[Mutex(r)] = hist[Mutex(r)]
    BY <1>6, <2>2
  <2> QED
    BY <2>3, <2>4 DEF Carries, Newest
<1>10. Lists' /\ Trails'
  BY <1>3, ListsKept
<1>11. \A x \in Linked : Current(ValueOf(x))' = Current(ValueOf(x))
  BY <1>3, Bound DEF Current, Newest, Val
<1>12. \A u \in Thread : Well(u)'
  <2>1. ASSUME NEW u \in Thread \ {t}
        PROVE  Well(u)'
    <3>1. pc[u] = "putValue" => Current(ValueOf(e[u]))' = Current(ValueOf(e[u]))
      <4>1. PICK x : x = e[u] /\ x = e'[u]
        BY <2>1 DEF Still
      <4>2. pc[u] = "putValue" => x \in Linked
        BY <4>1 DEF IInv, Well, SearchWell
      <4> QED
        BY <1>11, <4>1, <4>2
    <3>2. pc[u] \in MakeLabel => \A l \in Fields(e[u]) : hist'[l] = hist[l]
      <4>1. pc[u] \in MakeLabel => e[u] \in Entry
        BY Bound DEF IInv, Well, MakeWell
      <4> QED
        BY <1>1, <1>2, <4>1, Locations DEF Fields
    <3> QED
      BY <1>3, <2>1, <3>1, <3>2, WellKept
  <2> QED
    BY <1>3, <2>1
<1>13. Types'
  BY <1>2 DEF Types
<1> QED
  BY <1>2, <1>3, <1>7, <1>8, <1>9, <1>10, <1>11, <1>12, <1>13 DEF IInv, Handover

LEMMA PutLockStep ==
  ASSUME IInv, NEW t \in Thread, Put_Lock(t)
  PROVE  /\ IInv' /\ Kept /\ \A x \in Linked : Current(ValueOf(x))' = Current(ValueOf(x))
<1>1. PICK k \in Key : key' = [key EXCEPT ![t] = k] /\ Lock(t, k)
  BY DEF Put_Lock
<1>2. /\ pc[t] = "idle" /\ pc' = [pc EXCEPT ![t] = "putFirst"]
      /\ puts < MaxPuts /\ puts' = puts + 1
      /\ value' = [value EXCEPT ![t] = puts' + 1]
      /\ UNCHANGED <<e, first, old, entries, gets>>
  BY DEF Put_Lock, Goto, MoveTo
<1>3. Locals /\ puts \in 0..MaxPuts /\ MaxPuts \in Nat
  BY Longest DEF IInv, Types, Locals
<1>4. puts' + 1 \in Value /\ puts' \in 0..MaxPuts
  BY <1>2, <1>3 DEF Value
<1>5. Locals'
  BY <1>1, <1>2, <1>3, <1>4 DEF Locals, Label, PutLabel
<1>6. /\ pc'[t] = "putFirst" /\ key'[t] = k /\ value'[t] = puts' + 1
      /\ \A u \in Thread \ {t} : Still(u)
  BY <1>1, <1>2, <1>3 DEF Locals, Still
<1>7. ~Holds(t) /\ Holds(t)' /\ t \notin MayMake
  BY <1>2, <1>6 DEF Holds, PutLabel, MayMake
<1>8. Room'
  <2>1. MayMake' = MayMake \cup {t}
    BY <1>6 DEF MayMake, Still
  <2>2. IsFiniteSet(MayMake) /\ entries + Cardinality(MayMake) <= MaxBefore + puts
    BY DEF IInv, Room
  <2>3. PICK S : S = MayMake \cup {t}
    OBVIOUS
  <2>4. IsFiniteSet(S) /\ Cardinality(S) = Cardinality(MayMake) + 1
    BY <1>7, <2>2, <2>3, FS_AddElement
  <2>5. Cardinality(MayMake) \in Nat /\ entries \in Nat /\ MaxBefore \in Nat
    BY <2>2, FS_CardinalityType, Bound, Longest
  <2>6. entries' + Cardinality(S) <= MaxBefore + puts'
    BY <1>2, <1>3, <2>2, <2>4, <2>5
  <2> QED
    BY <2>1, <2>3, <2>4, <2>6 DEF Room
<1>9. Well(t)'
  BY <1>4, <1>6 DEF Well, CallWell, WalkWell, SearchWell, MakeWell, WalkLabel, MakeLabel, AbsentLabel, PutLabel
<1> QED
  BY <1>1, <1>2, <1>5, <1>6, <1>7, <1>8, <1>9, LockStep

LEMMA GetLockStep ==
  ASSUME IInv, NEW t \in Thread, Get_Lock(t)
  PROVE  /\ IInv' /\ Kept /\ \A x \in Linked : Current(ValueOf(x))' = Current(ValueOf(x))
<1>1. /\ pc[t] = "lock" /\ pc' = [pc EXCEPT ![t] = "recheck"] /\ Lock(t, key[t])
      /\ UNCHANGED <<key, value, e, first, old, entries, puts, gets>>
  BY DEF Get_Lock, Goto, MoveTo, locals
<1>2. PICK k \in Key : k = key[t]
  BY <1>1, HomeType
<1>3. Locals /\ Well(t) /\ puts \in Nat
  BY Longest DEF IInv, Types, Locals
<1>4. Locals'
  BY <1>1, <1>3 DEF Locals, Label, GetLabel
<1>5. /\ pc'[t] = "recheck" /\ key'[t] = k
      /\ \A u \in Thread \ {t} : Still(u)
  BY <1>1, <1>2, <1>3 DEF Locals, Still
<1>6. ~Holds(t) /\ Holds(t)'
  BY <1>1, <1>5 DEF Holds, PutLabel
<1>7. Room'
  <2>1. PICK S : S = MayMake'
    OBVIOUS
  <2>2. S \subseteq MayMake
    BY <1>5, <2>1 DEF MayMake, Still
  <2> QED
    BY <1>1, <1>3, <2>1, <2>2, RoomKept
<1>8. Kept => Well(t)'
  <2> SUFFICES ASSUME Kept
               PROVE  Well(t)'
    OBVIOUS
  <2>1. In(Home(t))' = In(Home(t)) /\ \A y \in In(Home(t)) : KeyAt(y)' = KeyAt(y)
    <3>1. PICK b : b = Home(t) /\ b = Home(t)'
      BY <1>1 DEF Home
    <3>2. In(b)' = In(b) /\ \A y \in In(b) : KeyAt(y)' = KeyAt(y)
      BY ListsKept DEF In
    <3> QED
      BY <3>1, <3>2
  <2>2. SearchWell(t)'
    BY <1>1, <1>3, <1>5, <2>1 DEF Well, SearchWell, AbsentLabel, MakeLabel
  <2> QED
    BY <1>2, <1>5, <2>2 DEF Well, CallWell, WalkWell, MakeWell, WalkLabel, MakeLabel, PutLabel
<1> QED
  BY <1>1, <1>2, <1>4, <1>5, <1>6, <1>7, <1>8, LockStep

(* The mutex takes what its holder knows.                                  *)
LEMMA UnlockAndReturnStep ==
  ASSUME IInv, NEW t \in Thread, UnlockAndReturn(t)
  PROVE  /\ IInv' /\ Kept /\ \A x \in Linked : Current(ValueOf(x))' = Current(ValueOf(x))
<1>1. /\ pc[t] = "unlock" /\ Holds(t) /\ Return(t) /\ UNCHANGED <<entries, puts, gets>>
      /\ Store(t, Mutex(Seg(t)), 0, release)
  BY DEF UnlockAndReturn, Unlock, Holds, Seg
<1>2. PICK s, m : s \in Segment /\ s = Seg(t) /\ m = Mutex(s)
  BY <1>1, HomeType
<1>3. m \in Loc /\ Knows(t, m) /\ \A l \in Guarded(s) : Knows(t, l)
  BY <1>1, <1>2, Locations DEF IInv, Handover, Held
<1>4. /\ MemType(Loc, Content)' /\ Chain' /\ Appended(Loc, m)
      /\ Newest(m)' = Newest(m) + 1 /\ Current(m)' = 0
      /\ hist'[m][Newest(m) + 1].view = cur[t]
      /\ \A u \in Thread : cur[u] \subseteq cur'[u]
  BY <1>1, <1>2, <1>3, Storing, Ranges DEF Released, Releasing, release
<1>5. sc' = sc
  BY <1>1 DEF Store, JoinSC, release, seq_cst
<1>6. \A l \in Loc \ {m} : hist'[l] = hist[l]
  BY <1>4 DEF Appended
<1>7. /\ Kept /\ Values' /\ Fresh' /\ Initials'
      /\ \A r : Guarded(r)' = Guarded(r)
      /\ \A r, l : l \in Guarded(r) => hist'[l] = hist[l]
      /\ \A x \in Entry : hist'[ValueOf(x)] = hist[ValueOf(x)]
  BY <1>1, <1>2, <1>4, <1>5, <1>6, MutexOnly
<1>8. /\ Locals' /\ pc'[t] = "idle" /\ Well(t)' /\ \A u \in Thread \ {t} : Still(u)
      /\ t \notin MayMake' /\ ~Holds(t)'
  BY <1>1, Returning
<1>9. ASSUME NEW u \in Thread, Holds(u)'
      PROVE  /\ Holds(u) /\ Seg(u)' = Seg(u) /\ Seg(u) # s /\ u # t
             /\ Mutex(Seg(u)) \in Loc \ {m}
  <2>1. u # t /\ Holds(u) /\ Seg(u)' = Seg(u) /\ pc[u] # "idle"
    BY <1>8, <1>9 DEF Still, Holds, Seg, PutLabel
  <2>2. Seg(u) # s
    BY <1>1, <1>2, <2>1 DEF IInv, Mutual
  <2> QED
    BY <1>2, <2>1, <2>2, HomeType, Locations
<1>10. \A r : Mutex(r) \in Loc \ {m} => Current(Mutex(r))' = Current(Mutex(r)) /\ hist'[Mutex(r)] = hist[Mutex(r)]
  BY <1>6 DEF Current, Newest, Val
<1>11. Mutual'
  <2>1. ASSUME NEW u \in Thread, Holds(u)'
        PROVE  Current(Mutex(Seg(u)))' # 0
    <3>1. PICK r : r = Seg(u) /\ r = Seg(u)'
      BY <1>9, <2>1
    <3>2. Current(Mutex(r)) # 0 /\ Mutex(r) \in Loc \ {m}
      BY <1>9, <2>1, <3>1 DEF IInv, Mutual
    <3>3. Current(Mutex(r))' # 0
      BY <1>10, <3>2
    <3> QED
      BY <3>1, <3>3 DEF Current, Newest, Val
  <2> QED
    BY <1>9, <2>1 DEF IInv, Mutual
<1>12. Held'
  <2> SUFFICES ASSUME NEW u \in Thread, Holds(u)'
               PROVE  Knows(u, Mutex(Seg(u)))' /\ \A l \in Guarded(Seg(u))' : Knows(u, l)'
    BY DEF Held
  <2>1. PICK r : r = Seg(u) /\ r = Seg(u)'
    BY <1>9
  <2>2. Knows(u, Mutex(r)) /\ (\A l \in Guarded(r) : Knows(u, l)) /\ Mutex(r) \in Loc \ {m}
    BY <1>9, <2>1 DEF IInv, Handover, Held
  <2>3. Knows(u, Mutex(r))' /\ \A l \in Guarded(r)' : Knows(u, l)'
    BY <1>4, <1>7, <1>10, <2>2 DEF Knows, Newest
  <2> QED
    BY <2>1, <2>3
<1>13. Passed'
  <2> SUFFICES ASSUME NEW r \in Segment, Current(Mutex(r))' = 0, NEW l \in Guarded(r)'
               PROVE  Carries(hist[Mutex(r)][Newest(Mutex(r))].view, l)'
    BY DEF Passed
  <2>1. l \in Guarded(r) /\ hist'[l] = hist[l] /\ l \in Loc
    BY <1>7, GuardedIn
  <2>2. CASE r = s
    <3>1. Knows(t, l) /\ Newest(l)' = Newest(l) /\ Newest(l) \in Nat
      BY <1>3, <2>1, <2>2, Lengths DEF Newest
    <3>2. hist'[Mutex(r)][Newest(Mutex(r))'].view = cur[t]
      BY <1>2, <1>4, <2>2 DEF Newest
    <3> QED
      BY <3>1, <3>2 DEF Carries, Knows
  <2>3. CASE r # s
    <3>1. Mutex(r) \in Loc \ {m}
      BY <1>2, <2>3, Locations
    <3>2. Carries(hist[Mutex(r)][Newest(Mutex(r))].view, l) /\ hist'[Mutex(r)] = hist[Mutex(r)]
      BY <1>10, <2>1, <3>1 DEF IInv, Handover, Passed
    <3> QED
      BY <2>1, <3>2 DEF Carries, Newest
  <2> QED
    BY <2>2, <2>3
<1>14. Lists' /\ Trails'
  BY <1>7, ListsKept
<1>15. \A x \in Linked : Current(ValueOf(x))' = Current(ValueOf(x))
  BY <1>7, Bound DEF Current, Newest, Val
<1>16. \A u \in Thread : Well(u)'
  <2>1. ASSUME NEW u \in Thread \ {t}
        PROVE  Well(u)'
    <3>1. pc[u] = "putValue" => Current(ValueOf(e[u]))' = Current(ValueOf(e[u]))
      <4>1. PICK x : x = e[u] /\ x = e'[u]
        BY <1>8, <2>1 DEF Still
      <4>2. pc[u] = "putValue" => x \in Linked
        BY <4>1 DEF IInv, Well, SearchWell
      <4> QED
        BY <1>15, <4>1, <4>2
    <3>2. pc[u] \in MakeLabel => \A l \in Fields(e[u]) : hist'[l] = hist[l]
      <4>1. pc[u] \in MakeLabel => e[u] \in Entry
        BY Bound DEF IInv, Well, MakeWell
      <4> QED
        BY <1>2, <1>6, <4>1, Locations DEF Fields
    <3> QED
      BY <1>7, <1>8, <2>1, <3>1, <3>2, WellKept
  <2> QED
    BY <1>8, <2>1
<1>17. Types' /\ Room'
  <2>1. PICK S : S = MayMake'
    OBVIOUS
  <2>2. S \subseteq MayMake
    BY <1>8, <2>1 DEF MayMake, Still
  <2>3. puts \in Nat
    BY Longest DEF IInv, Types, Locals
  <2> QED
    BY <1>1, <1>4, <1>8, <2>1, <2>2, <2>3, RoomKept DEF Types
<1> QED
  BY <1>4, <1>7, <1>11, <1>12, <1>13, <1>14, <1>15, <1>16, <1>17 DEF IInv, Handover

-----------------------------------------------------------------------------
(* A write of the holder of a mutex to what the mutex guards.              *)
LEMMA GuardedWrite ==
  ASSUME IInv, NEW t \in Thread, Holds(t), Holds(t)', key'[t] = key[t],
         \A u \in Thread \ {t} : Still(u),
         NEW l \in Loc, Appended(Loc, l), \A r : l # Mutex(r),
         <<l, Newest(l) + 1>> \in cur'[t], \A u \in Thread : cur[u] \subseteq cur'[u],
         \A s : s # Seg(t) => Guarded(s)' = Guarded(s) /\ l \notin Guarded(s),
         \A x \in Guarded(Seg(t))' : x \in Loc /\ Knows(t, x)
  PROVE  Initials' /\ Held' /\ Passed' /\ Mutual'
<1>1. /\ Newest(l)' = Newest(l) + 1 /\ Newest(l) \in Nat
      /\ \A x \in Loc \ {l} : hist'[x] = hist[x]
  BY Lengths DEF Appended, Newest
<1>2. \A s \in Segment : /\ hist'[Mutex(s)] = hist[Mutex(s)] /\ Current(Mutex(s))' = Current(Mutex(s))
                         /\ Newest(Mutex(s))' = Newest(Mutex(s))
  BY <1>1, Locations DEF Current, Newest, Val
<1>3. PICK s \in Segment : s = Seg(t) /\ s = Seg(t)'
  BY HomeType DEF Seg, Holds, PutLabel
<1>4. ASSUME NEW u \in Thread, Holds(u)'
      PROVE  Holds(u) /\ Seg(u)' = Seg(u) /\ Seg(u) \in Segment /\ (u # t => Seg(u) # s)
  <2>1. Holds(u) /\ Seg(u)' = Seg(u) /\ pc[u] # "idle"
    BY <1>4 DEF Still, Holds, Seg, PutLabel
  <2> QED
    BY <1>3, <2>1, HomeType DEF IInv, Mutual
<1>5. Initials'
  BY DEF IInv, Handover, Initials
<1>6. Mutual'
  <2>1. ASSUME NEW u \in Thread, Holds(u)'
        PROVE  Current(Mutex(Seg(u)))' # 0
    <3>1. PICK r \in Segment : r = Seg(u) /\ r = Seg(u)'
      BY <1>4, <2>1
    <3>2. Current(Mutex(r))' # 0
      BY <1>2, <1>4, <2>1, <3>1 DEF IInv, Mutual
    <3> QED
      BY <3>1, <3>2 DEF Current, Newest, Val
  <2> QED
    BY <1>4, <2>1 DEF IInv, Mutual
<1>7. ASSUME NEW x \in Loc, Knows(t, x)
      PROVE  Knows(t, x)'
  <2>1. CASE x = l
    BY <1>1, <1>7, <2>1 DEF Knows
  <2>2. CASE x # l
    BY <1>1, <1>7, <2>2 DEF Knows, Newest
  <2> QED
    BY <2>1, <2>2
<1>8. Held'
  <2> SUFFICES ASSUME NEW u \in Thread, Holds(u)'
               PROVE  Knows(u, Mutex(Seg(u)))' /\ \A x \in Guarded(Seg(u))' : Knows(u, x)'
    BY DEF Held
  <2>1. PICK r \in Segment : r = Seg(u) /\ r = Seg(u)'
    BY <1>4
  <2>2. Knows(u, Mutex(r)) /\ \A x \in Guarded(r) : Knows(u, x)
    BY <1>4, <2>1 DEF IInv, Handover, Held
  <2>3. Knows(u, Mutex(r))'
    BY <1>2, <2>2 DEF Knows
  <2>4. \A x \in Guarded(r)' : Knows(u, x)'
    <3>1. CASE u = t
      BY <1>3, <1>7, <2>1, <3>1
    <3>2. CASE u # t
      <4>1. r # Seg(t)
        BY <1>3, <1>4, <2>1, <3>2
      <4>2. Guarded(r)' = Guarded(r) /\ l \notin Guarded(r) /\ Guarded(r) \subseteq Loc
        BY <4>1, GuardedIn
      <4>3. \A x \in Guarded(r) : hist'[x] = hist[x]
        BY <1>1, <4>2
      <4> QED
        BY <2>2, <4>2, <4>3 DEF Knows, Newest
    <3> QED
      BY <3>1, <3>2
  <2> QED
    BY <2>1, <2>3, <2>4
<1>9. Passed'
  <2> SUFFICES ASSUME NEW r \in Segment, Current(Mutex(r))' = 0, NEW x \in Guarded(r)'
               PROVE  Carries(hist[Mutex(r)][Newest(Mutex(r))].view, x)'
    BY DEF Passed
  <2>1. r # Seg(t) /\ Current(Mutex(r)) = 0
    BY <1>2 DEF IInv, Mutual
  <2>2. x \in Guarded(r) /\ x \in Loc \ {l}
    BY <2>1, GuardedIn
  <2>3. Carries(hist[Mutex(r)][Newest(Mutex(r))].view, x) /\ hist'[x] = hist[x]
    BY <1>1, <2>1, <2>2 DEF IInv, Handover, Passed
  <2> QED
    BY <1>2, <2>3 DEF Carries, Newest
<1> QED
  BY <1>5, <1>6, <1>8, <1>9

(* A write to the entry that t makes, which nothing leads to: the lists    *)
(* stay.                                                                   *)
LEMMA PrivateWrite ==
  ASSUME IInv, NEW t \in Thread, NEW x \in Entry, x \notin Linked, NEW l \in Fields(x), Appended(Loc, l),
         entries' \in Nat, entries <= entries', Linked' = Linked,
         sc \subseteq sc', \A u \in Thread : cur[u] \subseteq cur'[u]
  PROVE  /\ Kept /\ Values' /\ \A y \in Linked : Current(ValueOf(y))' = Current(ValueOf(y))
         /\ \A k \in Loc \ {l} : hist'[k] = hist[k]
<1>1. \A k \in Loc \ {l} : hist'[k] = hist[k]
  BY DEF Appended
<1>2. /\ \A b \in Bucket : hist'[Table(b)] = hist[Table(b)]
      /\ \A y \in Linked : /\ hist'[KeyOf(y)] = hist[KeyOf(y)] /\ hist'[NextOf(y)] = hist[NextOf(y)]
                           /\ hist'[ValueOf(y)] = hist[ValueOf(y)]
  BY <1>1, Bound, Locations DEF Fields
<1>3. Kept
  BY <1>2 DEF Kept
<1>4. \A y \in Linked : /\ Newest(ValueOf(y))' = Newest(ValueOf(y))
                        /\ Current(ValueOf(y))' = Current(ValueOf(y))
                        /\ \A i : Val(ValueOf(y), i)' = Val(ValueOf(y), i)
  BY <1>2 DEF Newest, Val, Current
<1>5. Values'
  BY <1>4 DEF IInv, Values, Made
<1> QED
  BY <1>1, <1>3, <1>4, <1>5

LEMMA OtherKept ==
  ASSUME IInv, Kept, NEW u \in Thread, Still(u),
         \A x \in Linked : Current(ValueOf(x))' = Current(ValueOf(x)),
         pc[u] \in MakeLabel => \A l \in Fields(e[u]) : hist'[l] = hist[l]
  PROVE  Well(u)'
<1>1. pc[u] = "putValue" => Current(ValueOf(e[u]))' = Current(ValueOf(e[u]))
  <2>1. PICK x : x = e[u] /\ x = e'[u]
    BY DEF Still
  <2>2. pc[u] = "putValue" => x \in Linked
    BY <2>1 DEF IInv, Well, SearchWell
  <2> QED
    BY <2>1, <2>2
<1> QED
  BY <1>1, WellKept

(* Two calls of put() do not make the same entry.                          *)
LEMMA MakersApart ==
  ASSUME IInv, NEW t \in Thread, NEW u \in Thread, t # u, pc[t] \in MakeLabel, pc[u] \in MakeLabel
  PROVE  e[t] # e[u] /\ Seg(t) # Seg(u)
<1>1. Holds(t) /\ Holds(u) /\ KeyAt(e[t]) = key[t] /\ KeyAt(e[u]) = key[u]
  BY DEF IInv, Well, MakeWell, MakeLabel, Holds, PutLabel
<1>2. Seg(t) # Seg(u)
  BY <1>1 DEF IInv, Mutual
<1> QED
  BY <1>1, <1>2 DEF Seg

LEMMA PutNewEntryStep ==
  ASSUME IInv, NEW t \in Thread, Put_NewEntry(t)
  PROVE  /\ IInv' /\ Kept /\ \A x \in Linked : Current(ValueOf(x))' = Current(ValueOf(x))
<1>1. PICK x : x = entries + 1
  OBVIOUS
<1>2. /\ pc[t] = "newEntry" /\ pc' = [pc EXCEPT ![t] = "newValue"]
      /\ entries' = x /\ e' = [e EXCEPT ![t] = x] /\ Store(t, KeyOf(x), key[t], relaxed)
      /\ UNCHANGED <<key, value, first, old, puts, gets>>
  BY <1>1 DEF Put_NewEntry, Goto, MoveTo
<1>3. /\ Holds(t) /\ t \in MayMake /\ entries \in Nat /\ x \in Entry /\ x > entries /\ x \in Nat
      /\ 1..entries \subseteq Entry /\ x \notin 1..entries /\ 1..x = (1..entries) \cup {x}
      /\ x \notin Linked
  <2>1. t \in MayMake /\ Holds(t)
    BY <1>2 DEF MayMake, Holds, PutLabel
  <2>2. x \in Entry /\ entries \in Nat /\ 1..entries \subseteq Entry
    BY <1>1, <2>1, Bound
  <2>3. Linked \subseteq 1..entries
    BY DEF IInv, Lists
  <2> QED
    BY <1>1, <2>1, <2>2, <2>3
<1>4. Blank(KeyOf(x)) /\ Blank(ValueOf(x)) /\ Blank(NextOf(x))
  BY <1>3 DEF IInv, Fresh
<1>5. \A l \in Fields(x) : l \in Loc /\ Knows(t, l)
  <2>1. \A l \in Fields(x) : l \in Loc /\ Newest(l) = 1
    BY <1>3, <1>4, Locations DEF Fields, Blank
  <2>2. \A l \in Loc : <<l, 1>> \in cur[t]
    BY DEF IInv, Handover, Initials
  <2> QED
    BY <2>1, <2>2 DEF Knows
<1>6. PICK l : l = KeyOf(x) /\ l \in Fields(x) /\ l \in Loc /\ Knows(t, l)
  BY <1>5 DEF Fields
<1>7. key[t] \in Key /\ key[t] \in Content
  BY <1>2, HomeType, Ranges
<1>8. /\ MemType(Loc, Content)' /\ Chain' /\ Appended(Loc, l) /\ Current(l)' = key[t]
      /\ \A u \in Thread : cur[u] \subseteq cur'[u]
      /\ <<l, Newest(l) + 1>> \in cur'[t] /\ sc \subseteq sc'
  BY <1>2, <1>6, <1>7, Storing
<1>9. \A k \in Loc \ {l} : hist'[k] = hist[k]
  BY <1>8 DEF Appended
<1>10. /\ KeyAt(x)' = key[t]
       /\ \A y \in 1..entries : KeyAt(y)' = KeyAt(y) /\ Current(NextOf(y))' = Current(NextOf(y))
       /\ Current(NextOf(x))' = Uninit
       /\ \A b \in Bucket : Current(Table(b))' = Current(Table(b))
       /\ Blank(ValueOf(x))' /\ Blank(NextOf(x))'
  <2>1. KeyAt(x)' = key[t]
    BY <1>6, <1>8 DEF KeyAt, Current, Newest, Val
  <2>2. ASSUME NEW y \in 1..entries
        PROVE  KeyOf(y) \in Loc \ {l} /\ NextOf(y) \in Loc \ {l}
    BY <1>3, <1>6, <2>2, Locations
  <2>3. \A b \in Bucket : Table(b) \in Loc \ {l}
    BY <1>6, Locations DEF Fields
  <2>4. ValueOf(x) \in Loc \ {l} /\ NextOf(x) \in Loc \ {l}
    BY <1>3, <1>6, Locations
  <2>5. \A y \in 1..entries : KeyAt(y)' = KeyAt(y) /\ Current(NextOf(y))' = Current(NextOf(y))
    BY <1>9, <2>2 DEF KeyAt, Current, Newest, Val
  <2>6. \A b \in Bucket : Current(Table(b))' = Current(Table(b))
    BY <1>9, <2>3 DEF Current, Newest, Val
  <2>7. hist'[ValueOf(x)] = hist[ValueOf(x)] /\ hist'[NextOf(x)] = hist[NextOf(x)]
    BY <1>9, <2>4
  <2>8. Current(NextOf(x))' = Uninit /\ Blank(ValueOf(x))' /\ Blank(NextOf(x))'
    BY <1>4, <2>7 DEF Blank, Current, Newest, Val
  <2> QED
    BY <2>1, <2>5, <2>6, <2>8
<1>11. Linked' = Linked
  <2>1. \A p : p \in Linked' <=>
          /\ p # null /\ p # Uninit
          /\ (\E b \in Bucket : p = Current(Table(b))') \/ (\E y \in 1..x : p = Current(NextOf(y))')
    BY <1>2 DEF Linked
  <2>2. \A p : p \in Linked <=>
          /\ p # null /\ p # Uninit
          /\ (\E b \in Bucket : p = Current(Table(b))) \/ (\E y \in 1..entries : p = Current(NextOf(y)))
    BY DEF Linked
  <2>3. \A p : p # Uninit =>
          ((\E y \in 1..x : p = Current(NextOf(y))') <=> (\E y \in 1..entries : p = Current(NextOf(y))))
    BY <1>3, <1>10
  <2> QED
    BY <1>10, <2>1, <2>2, <2>3
<1>12. /\ Kept /\ Values' /\ \A y \in Linked : Current(ValueOf(y))' = Current(ValueOf(y))
  BY <1>2, <1>3, <1>1, <1>6, <1>8, <1>11, PrivateWrite
<1>13. Locals
  BY DEF IInv, Types
<1>14. /\ Locals' /\ pc'[t] = "newValue" /\ e'[t] = x /\ key'[t] = key[t] /\ first'[t] = first[t]
       /\ value'[t] = value[t] /\ \A u \in Thread \ {t} : Still(u)
  <2>1. pc' \in [Thread -> Label] /\ e' \in [Thread -> Entry \cup {null}] /\ entries' \in Nat
    BY <1>2, <1>3, <1>13 DEF Locals, Label, PutLabel
  <2> QED
    BY <1>2, <1>13, <2>1 DEF Locals, Still
<1>15. Fresh'
  <2> SUFFICES ASSUME NEW y \in Entry, y > x
               PROVE  (Blank(KeyOf(y)) /\ Blank(ValueOf(y)) /\ Blank(NextOf(y)))'
    BY <1>2 DEF Fresh
  <2>1. y # x /\ y > entries
    BY <1>1, <1>3, Ranges
  <2>2. Blank(KeyOf(y)) /\ Blank(ValueOf(y)) /\ Blank(NextOf(y))
    BY <2>1 DEF IInv, Fresh
  <2>3. \A k \in Fields(y) : k \in Loc \ {l}
    BY <1>6, <2>1, Locations DEF Fields
  <2>4. /\ hist'[KeyOf(y)] = hist[KeyOf(y)] /\ hist'[ValueOf(y)] = hist[ValueOf(y)]
        /\ hist'[NextOf(y)] = hist[NextOf(y)]
    BY <1>9, <2>3 DEF Fields
  <2> QED
    BY <2>2, <2>4 DEF Blank, Newest, Val
<1>16. Room'
  <2>1. PICK S : S = MayMake \ {t} /\ S = MayMake'
    BY <1>14 DEF MayMake, Still
  <2>2. IsFiniteSet(MayMake) /\ entries + Cardinality(MayMake) <= MaxBefore + puts
    BY DEF IInv, Room
  <2>3. IsFiniteSet(S) /\ Cardinality(S) = Cardinality(MayMake) - 1
    BY <1>3, <2>1, <2>2, FS_RemoveElement
  <2>4. Cardinality(MayMake) \in Nat /\ MaxBefore \in Nat /\ puts \in Nat
    BY <2>2, FS_CardinalityType, Longest DEF IInv, Types, Locals
  <2>5. entries' + Cardinality(S) <= MaxBefore + puts'
    BY <1>1, <1>2, <1>3, <2>2, <2>3, <2>4
  <2> QED
    BY <2>1, <2>3, <2>5 DEF Room
<1>17. Initials' /\ Held' /\ Passed' /\ Mutual'
  <2>1. Holds(t)'
    BY <1>14 DEF Holds, PutLabel
  <2>2. \A s : Guarded(s)' = Guarded(s) \cup (IF s = Seg(t) THEN Fields(x) ELSE {})
    <3> SUFFICES ASSUME NEW s
                 PROVE  Guarded(s)' = Guarded(s) \cup (IF s = Seg(t) THEN Fields(x) ELSE {})
      OBVIOUS
    <3>1. {y \in 1..entries : SegmentOf(KeyAt(y)) = s}' =
            {y \in 1..entries : SegmentOf(KeyAt(y)) = s} \cup (IF s = Seg(t) THEN {x} ELSE {})
      BY <1>2, <1>3, <1>10 DEF Seg
    <3> QED
      BY <3>1 DEF Guarded
  <2>3. \A s : l \notin Guarded(s)
    <3>1. \A y \in 1..entries : l \notin Fields(y)
      BY <1>3, <1>6, Locations DEF Fields
    <3>2. \A b \in Bucket : l # Table(b)
      BY <1>6, Locations
    <3> QED
      BY <3>1, <3>2 DEF Guarded
  <2>4. \A k \in Guarded(Seg(t)) : k \in Loc /\ Knows(t, k)
    BY <1>3, GuardedIn DEF IInv, Handover, Held
  <2>5. Seg(t)' = Seg(t)
    BY <1>14 DEF Seg
  <2>6. \A k \in Guarded(Seg(t))' : k \in Loc /\ Knows(t, k)
    <3>1. PICK s : s = Seg(t) /\ s = Seg(t)'
      BY <2>5
    <3>2. \A k \in Guarded(s)' : k \in Loc /\ Knows(t, k)
      BY <1>5, <2>2, <2>4, <3>1
    <3> QED
      BY <3>1, <3>2
  <2>7. \A r : l # Mutex(r)
    BY <1>6, Locations
  <2> QED
    BY <1>3, <1>6, <1>8, <1>14, <2>1, <2>2, <2>3, <2>6, <2>7, GuardedWrite
<1>18. Lists' /\ Trails' /\ (\A y \in Linked : KeyAt(y)' = KeyAt(y)) /\ \A b : In(b)' = In(b)
  BY <1>12, ListsKept
<1>19. ASSUME NEW u \in Thread \ {t}
       PROVE  Well(u)'
  <2>1. pc[u] \in MakeLabel => \A k \in Fields(e[u]) : hist'[k] = hist[k]
    <3>1. pc[u] \in MakeLabel => e[u] \in Entry /\ e[u] # x
      BY <1>3 DEF IInv, Well, MakeWell
    <3> QED
      BY <1>6, <1>9, <3>1, Locations DEF Fields
  <2> QED
    BY <1>12, <1>14, <2>1, OtherKept
<1>20. Well(t)'
  <2>1. PICK b \in Bucket : b = Home(t) /\ b = Home(t)' /\ First(t) = Table(b) /\ First(t)' = Table(b)
    BY <1>2, <1>14, HomeType DEF Home, First
  <2>2. In(b)' = In(b) /\ (\A y \in In(b) : KeyAt(y)' = KeyAt(y) /\ y <= entries)
    BY <1>18, <1>3 DEF In, IInv, Lists
  <2>3. Current(First(t))' = Current(First(t))
    <3>1. Current(Table(b))' = Current(Table(b))
      BY <1>10
    <3> QED
      BY <2>1, <3>1 DEF Current, Newest, Val
  <2>4. CallWell(t) /\ SearchWell(t)
    BY DEF IInv, Well
  <2>5. SearchWell(t)'
    BY <1>2, <1>14, <2>1, <2>2, <2>3, <2>4 DEF SearchWell, AbsentLabel, MakeLabel
  <2>6. MakeWell(t)'
    <3>1. x \in 1..entries' /\ x \notin Linked' /\ KeyAt(x)' = key[t]
      BY <1>2, <1>3, <1>10, <1>11
    <3>2. ASSUME NEW y \in In(b)
          PROVE  y < x
      <4>1. y \in Nat /\ y <= entries
        BY <1>3, <2>2, <3>2, HeadOf, Ranges
      <4> QED
        BY <1>1, <1>3, <4>1
    <3>3. PICK z : z = e'[t] /\ z = x
      BY <1>14
    <3> QED
      BY <1>10, <1>14, <2>1, <2>2, <3>1, <3>2 DEF MakeWell, MakeLabel
  <2> QED
    BY <1>2, <1>14, <2>4, <2>5, <2>6 DEF Well, CallWell, WalkWell, WalkLabel, PutLabel
<1> QED
  BY <1>8, <1>12, <1>14, <1>15, <1>16, <1>17, <1>18, <1>19, <1>20 DEF IInv, Types, Handover

(* The entry gets its value, then its next: only its own fields change.    *)
LEMMA PrivateStep ==
  ASSUME IInv, NEW t \in Thread, NEW x, x = e[t], NEW v \in Content, UNCHANGED locals,
         pc[t] \in {"newValue", "newNext"}, pc'[t] \in {"newNext", "publish"},
         pc' \in [Thread -> Label], \A u \in Thread \ {t} : pc'[u] = pc[u],
         UNCHANGED <<entries, puts, gets>>,
         NEW l \in {ValueOf(x), NextOf(x)}, Store(t, l, v, relaxed),
         l = NextOf(x) => v \in Linked \cup {null}
  PROVE  /\ Kept /\ \A y \in Linked : Current(ValueOf(y))' = Current(ValueOf(y))
         /\ Types' /\ Chain' /\ Room' /\ Lists' /\ Values' /\ Fresh' /\ Mutual' /\ Handover'
         /\ \A u \in Thread \ {t} : Well(u)'
         /\ x \in Entry /\ l \in Loc /\ Appended(Loc, l) /\ Current(l)' = v
         /\ Newest(l)' = Newest(l) + 1 /\ hist'[l][Newest(l) + 1].val = v
         /\ \A k \in Loc \ {l} : hist'[k] = hist[k]
<1>1. /\ Holds(t) /\ Holds(t)' /\ t \notin MayMake' /\ t \notin MayMake /\ pc[t] \in MakeLabel
      /\ Locals /\ Locals' /\ \A u \in Thread \ {t} : Still(u)
  <2>1. Locals
    BY DEF IInv, Types
  <2>2. Locals'
    BY <2>1 DEF Locals, locals
  <2>3. \A u \in Thread \ {t} : Still(u)
    BY <2>1 DEF Locals, Still, locals
  <2> QED
    BY <2>1, <2>2, <2>3 DEF Holds, MayMake, MakeLabel, PutLabel
<1>2. /\ x \in 1..entries /\ x \in Entry /\ x \notin Linked /\ KeyAt(x) = key[t]
      /\ entries \in Nat /\ 1..entries \subseteq Entry
  BY <1>1, Bound DEF IInv, Well, MakeWell
<1>3. l \in Loc /\ Knows(t, l) /\ l \in Fields(x) /\ l # KeyOf(x)
  BY <1>1, <1>2, HolderKnows, Locations DEF Fields
<1>4. /\ MemType(Loc, Content)' /\ Chain' /\ Appended(Loc, l) /\ Current(l)' = v
      /\ Newest(l)' = Newest(l) + 1 /\ hist'[l][Newest(l) + 1].val = v
      /\ \A u \in Thread : cur[u] \subseteq cur'[u]
      /\ <<l, Newest(l) + 1>> \in cur'[t] /\ sc \subseteq sc'
  BY <1>3, Storing
<1>5. \A k \in Loc \ {l} : hist'[k] = hist[k]
  BY <1>4 DEF Appended
<1>6. \A b \in Bucket : Current(Table(b))' = Current(Table(b))
  <2>1. \A b \in Bucket : hist'[Table(b)] = hist[Table(b)]
    BY <1>3, <1>5, Locations
  <2> QED
    BY <2>1 DEF Current, Newest, Val
<1>7. \A y \in 1..entries : /\ KeyAt(y)' = KeyAt(y)
                            /\ y # x => Current(NextOf(y))' = Current(NextOf(y))
  <2>1. \A y \in 1..entries : hist'[KeyOf(y)] = hist[KeyOf(y)]
    BY <1>2, <1>3, <1>5, Locations
  <2>2. \A y \in 1..entries : y # x => hist'[NextOf(y)] = hist[NextOf(y)]
    BY <1>2, <1>3, <1>5, Locations DEF Fields
  <2> QED
    BY <2>1, <2>2 DEF KeyAt, Current, Newest, Val
<1>8. Linked' = Linked
  <2>1. \A p : p \in Linked' <=>
          /\ p # null /\ p # Uninit
          /\ (\E b \in Bucket : p = Current(Table(b))') \/ (\E y \in 1..entries : p = Current(NextOf(y))')
    BY DEF Linked
  <2>2. \A p : p \in Linked <=>
          /\ p # null /\ p # Uninit
          /\ (\E b \in Bucket : p = Current(Table(b))) \/ (\E y \in 1..entries : p = Current(NextOf(y)))
    BY DEF Linked
  <2>3. CASE l = NextOf(x)
    <3>1. PICK k : k = NextOf(x)
      OBVIOUS
    <3>2. Current(k)' = v /\ v \in Linked \cup {null}
      BY <1>4, <2>3, <3>1 DEF Current, Newest, Val
    <3>3. Current(NextOf(x))' = v
      BY <3>1, <3>2
    <3>4. Current(NextOf(x)) = Uninit
      <4>1. pc[t] = "newValue" \/ pc[t] = "newNext"
        OBVIOUS
      <4>2. Blank(NextOf(x))
        BY <1>1, <4>1 DEF IInv, Well, MakeWell
      <4> QED
        BY <4>2 DEF Blank, Current, Val, Newest
    <3> QED
      BY <1>6, <1>7, <2>1, <2>2, <3>2, <3>3, <3>4
  <2>4. CASE l # NextOf(x)
    <3>1. NextOf(x) \in Loc \ {l}
      BY <1>2, <2>4, Locations
    <3>2. Current(NextOf(x))' = Current(NextOf(x))
      BY <1>5, <3>1 DEF Current, Newest, Val
    <3> QED
      BY <1>6, <1>7, <2>1, <2>2, <3>2
  <2> QED
    BY <2>3, <2>4
<1>9. Kept /\ Values' /\ \A y \in Linked : Current(ValueOf(y))' = Current(ValueOf(y))
  BY <1>2, <1>3, <1>4, <1>8, PrivateWrite
<1>10. Lists' /\ Trails'
  BY <1>9, ListsKept
<1>11. Fresh'
  <2> SUFFICES ASSUME NEW y \in Entry, y > entries
               PROVE  (Blank(KeyOf(y)) /\ Blank(ValueOf(y)) /\ Blank(NextOf(y)))'
    BY DEF Fresh
  <2>1. y # x
    BY <1>2
  <2>2. Blank(KeyOf(y)) /\ Blank(ValueOf(y)) /\ Blank(NextOf(y))
    BY DEF IInv, Fresh
  <2>3. \A k \in Fields(y) : k \in Loc \ {l}
    BY <1>3, <2>1, Locations DEF Fields
  <2>4. /\ hist'[KeyOf(y)] = hist[KeyOf(y)] /\ hist'[ValueOf(y)] = hist[ValueOf(y)]
        /\ hist'[NextOf(y)] = hist[NextOf(y)]
    BY <1>5, <2>3 DEF Fields
  <2> QED
    BY <2>2, <2>4 DEF Blank, Newest, Val
<1>12. Initials' /\ Held' /\ Passed' /\ Mutual'
  <2>1. \A s : Guarded(s)' = Guarded(s)
    BY <1>7 DEF Guarded
  <2>2. l \in Guarded(Seg(t))
    BY <1>1, <1>2, <1>3, GuardedIs DEF MakeLabel
  <2>3. \A s : s # Seg(t) => l \notin Guarded(s)
    BY <2>2, GuardedApart
  <2>4. \A k \in Guarded(Seg(t)) : k \in Loc /\ Knows(t, k)
    BY <1>1, GuardedIn DEF IInv, Handover, Held
  <2>5. \A k \in Guarded(Seg(t))' : k \in Loc /\ Knows(t, k)
    <3>1. PICK s : s = Seg(t) /\ s = Seg(t)'
      BY DEF Seg, locals
    <3> QED
      BY <2>1, <2>4, <3>1
  <2>6. \A r : l # Mutex(r)
    BY <1>3, Locations
  <2>7. key'[t] = key[t]
    BY DEF locals
  <2> QED
    BY <1>1, <1>3, <1>4, <2>1, <2>3, <2>5, <2>6, <2>7, GuardedWrite
<1>13. ASSUME NEW u \in Thread \ {t}
       PROVE  Well(u)'
  <2>1. pc[u] \in MakeLabel => \A k \in Fields(e[u]) : hist'[k] = hist[k]
    <3>1. pc[u] \in MakeLabel => e[u] \in Entry /\ e[u] # x
      BY <1>1, Bound, MakersApart DEF IInv, Well, MakeWell
    <3> QED
      BY <1>3, <1>5, <3>1, Locations DEF Fields
  <2> QED
    BY <1>1, <1>9, <2>1, OtherKept
<1>14. Types' /\ Room'
  <2>1. PICK S : S = MayMake'
    OBVIOUS
  <2>2. S \subseteq MayMake
    BY <1>1, <2>1 DEF MayMake, Still
  <2>3. puts \in Nat
    BY <1>1, Longest DEF Locals
  <2> QED
    BY <1>1, <1>4, <2>1, <2>2, <2>3, RoomKept DEF Types
<1> QED
  BY <1>2, <1>3, <1>4, <1>5, <1>9, <1>10, <1>11, <1>12, <1>13, <1>14 DEF Handover

LEMMA PutNewValueStep ==
  ASSUME IInv, NEW t \in Thread, Put_NewValue(t)
  PROVE  /\ IInv' /\ Kept /\ \A x \in Linked : Current(ValueOf(x))' = Current(ValueOf(x))
<1>1. PICK x, l, v : x = e[t] /\ l = ValueOf(x) /\ v = value[t]
  OBVIOUS
<1>2. /\ pc[t] = "newValue" /\ pc' = [pc EXCEPT ![t] = "newNext"] /\ Store(t, l, v, relaxed)
      /\ UNCHANGED locals /\ UNCHANGED <<entries, puts, gets>>
  BY <1>1 DEF Put_NewValue, Goto, MoveTo
<1>3. /\ CallWell(t) /\ SearchWell(t) /\ MakeWell(t) /\ pc'[t] = "newNext"
      /\ pc' \in [Thread -> Label] /\ \A u \in Thread \ {t} : pc'[u] = pc[u]
  BY <1>2 DEF IInv, Well, Types, Locals, Label, PutLabel
<1>4. v \in Value /\ v \in Content /\ key[t] \in Key
  BY <1>1, <1>2, <1>3, Ranges DEF CallWell, PutLabel
<1>5. /\ x \in 1..entries /\ x \notin Linked /\ KeyAt(x) = key[t] /\ (\A y \in In(Home(t)) : y < x)
      /\ Blank(ValueOf(x)) /\ Blank(NextOf(x))
  BY <1>1, <1>2, <1>3 DEF MakeWell, MakeLabel
<1>6. l # NextOf(x) /\ l # KeyOf(x)
  BY <1>1, Locations
<1>7. /\ Kept /\ \A y \in Linked : Current(ValueOf(y))' = Current(ValueOf(y))
      /\ Types' /\ Chain' /\ Room' /\ Lists' /\ Values' /\ Fresh' /\ Mutual' /\ Handover'
      /\ \A u \in Thread \ {t} : Well(u)'
      /\ x \in Entry /\ l \in Loc
      /\ Appended(Loc, l) /\ Newest(l)' = Newest(l) + 1 /\ hist'[l][Newest(l) + 1].val = v
      /\ \A k \in Loc \ {l} : hist'[k] = hist[k]
  BY <1>1, <1>2, <1>3, <1>4, <1>6, PrivateStep
<1>8. /\ hist'[KeyOf(x)] = hist[KeyOf(x)] /\ hist'[NextOf(x)] = hist[NextOf(x)]
      /\ Newest(l) = 1 /\ Val(l, 1) = Uninit
  BY <1>1, <1>5, <1>6, <1>7, Locations DEF Blank
<1>9. Newest(l)' = 2 /\ Val(l, 1)' = Uninit /\ Val(l, 2)' = v
  BY <1>7, <1>8 DEF Appended, Newest, Val
<1>10. KeyAt(x)' = key[t] /\ Blank(NextOf(x))'
  BY <1>5, <1>8 DEF KeyAt, Blank, Newest, Val
<1>11. PICK b \in Bucket : b = Home(t) /\ b = Home(t)' /\ First(t) = Table(b) /\ First(t)' = Table(b)
  BY <1>2, HomeType DEF Home, First, locals
<1>12. /\ In(b)' = In(b) /\ (\A y \in In(b) : KeyAt(y)' = KeyAt(y))
       /\ Current(Table(b))' = Current(Table(b))
  BY <1>7, ListsKept DEF In
<1>13. Current(First(t))' = Current(First(t))
  BY <1>11, <1>12 DEF Current, Newest, Val
<1>14. pc'[t] = "newNext"
  BY <1>2, <1>3
<1>15. SearchWell(t)'
  BY <1>2, <1>3, <1>11, <1>12, <1>13, <1>14 DEF SearchWell, AbsentLabel, MakeLabel, locals
<1>16. MakeWell(t)'
  <2>1. PICK z : z = e'[t] /\ z = x
    BY <1>1, <1>2 DEF locals
  <2>2. Newest(ValueOf(z))' = 2 /\ Val(ValueOf(z), 1)' = Uninit /\ Val(ValueOf(z), 2)' = v
    BY <1>1, <1>9, <2>1
  <2>3. x \in 1..entries' /\ x \notin Linked'
    BY <1>2, <1>5, <1>7 DEF Kept
  <2> QED
    BY <1>1, <1>2, <1>5, <1>10, <1>11, <1>12, <1>14, <2>1, <2>2, <2>3 DEF MakeWell, MakeLabel, locals
<1>17. Well(t)'
  BY <1>1, <1>2, <1>3, <1>4, <1>14, <1>15, <1>16 DEF Well, CallWell, WalkWell, WalkLabel, PutLabel, locals
<1> QED
  BY <1>7, <1>17 DEF IInv

LEMMA PutNewNextStep ==
  ASSUME IInv, NEW t \in Thread, Put_NewNext(t)
  PROVE  /\ IInv' /\ Kept /\ \A x \in Linked : Current(ValueOf(x))' = Current(ValueOf(x))
<1>1. PICK x, l, v : x = e[t] /\ l = NextOf(x) /\ v = first[t]
  OBVIOUS
<1>2. /\ pc[t] = "newNext" /\ pc' = [pc EXCEPT ![t] = "publish"] /\ Store(t, l, v, relaxed)
      /\ UNCHANGED locals /\ UNCHANGED <<entries, puts, gets>>
  BY <1>1 DEF Put_NewNext, Goto, MoveTo
<1>3. /\ CallWell(t) /\ SearchWell(t) /\ MakeWell(t) /\ pc'[t] = "publish"
      /\ pc' \in [Thread -> Label] /\ \A u \in Thread \ {t} : pc'[u] = pc[u]
  BY <1>2 DEF IInv, Well, Types, Locals, Label, PutLabel
<1>4. PICK b \in Bucket : b = Home(t) /\ b = Home(t)' /\ First(t) = Table(b) /\ First(t)' = Table(b)
  BY <1>2, HomeType DEF Home, First, locals
<1>5. v \in Linked \cup {null} /\ v \in Content
  <2>1. v = Current(Table(b))
    BY <1>1, <1>2, <1>3, <1>4 DEF SearchWell, AbsentLabel, MakeLabel
  <2> QED
    BY <2>1, HeadOf, Ranges
<1>6. /\ x \in 1..entries /\ x \notin Linked /\ KeyAt(x) = key[t] /\ (\A y \in In(Home(t)) : y < x)
      /\ Newest(ValueOf(x)) = 2 /\ Val(ValueOf(x), 1) = Uninit /\ Val(ValueOf(x), 2) = value[t]
  BY <1>1, <1>2, <1>3 DEF MakeWell, MakeLabel
<1>7. l # ValueOf(x) /\ l # KeyOf(x)
  BY <1>1, Locations
<1>8. /\ Kept /\ \A y \in Linked : Current(ValueOf(y))' = Current(ValueOf(y))
      /\ Types' /\ Chain' /\ Room' /\ Lists' /\ Values' /\ Fresh' /\ Mutual' /\ Handover'
      /\ \A u \in Thread \ {t} : Well(u)'
      /\ x \in Entry /\ l \in Loc /\ Current(l)' = v
      /\ \A k \in Loc \ {l} : hist'[k] = hist[k]
  BY <1>1, <1>2, <1>3, <1>5, PrivateStep
<1>9. hist'[KeyOf(x)] = hist[KeyOf(x)] /\ hist'[ValueOf(x)] = hist[ValueOf(x)]
  BY <1>7, <1>8, Locations
<1>10. /\ KeyAt(x)' = key[t] /\ Newest(ValueOf(x))' = 2
       /\ Val(ValueOf(x), 1)' = Uninit /\ Val(ValueOf(x), 2)' = value[t]
  BY <1>6, <1>9 DEF KeyAt, Newest, Val
<1>11. /\ In(b)' = In(b) /\ (\A y \in In(b) : KeyAt(y)' = KeyAt(y))
       /\ Current(Table(b))' = Current(Table(b))
  BY <1>8, ListsKept DEF In
<1>12. Current(First(t))' = Current(First(t))
  BY <1>4, <1>11 DEF Current, Newest, Val
<1>13. pc'[t] = "publish"
  BY <1>2, <1>3
<1>14. SearchWell(t)'
  BY <1>2, <1>3, <1>4, <1>11, <1>12, <1>13 DEF SearchWell, AbsentLabel, MakeLabel, locals
<1>15. MakeWell(t)'
  <2>1. PICK z : z = e'[t] /\ z = x
    BY <1>1, <1>2 DEF locals
  <2>2. Current(NextOf(z))' = v
    BY <1>1, <1>8, <2>1
  <2>3. x \in 1..entries' /\ x \notin Linked'
    BY <1>2, <1>6, <1>8 DEF Kept
  <2>4. e'[t] = e[t] /\ first'[t] = first[t] /\ value'[t] = value[t] /\ key'[t] = key[t]
    BY <1>2 DEF locals
  <2> QED
    BY <1>1, <1>4, <1>6, <1>10, <1>11, <1>13, <2>1, <2>2, <2>3, <2>4 DEF MakeWell, MakeLabel
<1>16. Well(t)'
  BY <1>2, <1>3, <1>13, <1>14, <1>15 DEF Well, CallWell, WalkWell, WalkLabel, PutLabel, locals
<1> QED
  BY <1>8, <1>16 DEF IInv

(* put() stores a new value in the entry of its key.                       *)
LEMMA PutStoreValueStep ==
  ASSUME IInv, NEW t \in Thread, Put_StoreValue(t)
  PROVE  /\ IInv' /\ Kept
         /\ e[t] \in Linked /\ KeyAt(e[t]) = key[t] /\ old[t] = Current(ValueOf(e[t]))
         /\ Current(ValueOf(e[t]))' = value[t]
         /\ \A y \in Linked \ {e[t]} : Current(ValueOf(y))' = Current(ValueOf(y))
<1>1. PICK x, l, v : x = e[t] /\ l = ValueOf(x) /\ v = value[t]
  OBVIOUS
<1>2. /\ pc[t] = "putValue" /\ pc' = [pc EXCEPT ![t] = "unlock"] /\ Store(t, l, v, seq_cst)
      /\ UNCHANGED locals /\ UNCHANGED <<entries, puts, gets>> /\ Holds(t)
  BY <1>1 DEF Put_StoreValue, Goto, MoveTo, OrderPutValue, Holds, PutLabel
<1>3. CallWell(t) /\ SearchWell(t) /\ MakeWell(t) /\ Locals
  BY DEF IInv, Well, Types
<1>4. v \in Value /\ v \in Content /\ key[t] \in Key
  BY <1>1, <1>2, <1>3, Ranges DEF CallWell, PutLabel
<1>5. x \in Linked /\ KeyAt(x) = key[t] /\ old[t] = Current(ValueOf(x))
  BY <1>1, <1>2, <1>3 DEF SearchWell
<1>6. x \in In(Home(t)) /\ x \in 1..entries /\ x \in Entry
  BY <1>5, Bound DEF In, Home, IInv, Lists
<1>7. l \in Loc /\ Knows(t, l) /\ Fields(x) \subseteq Guarded(Seg(t))
  BY <1>1, <1>2, <1>6, HolderKnows, GuardedIs, Locations
<1>8. /\ MemType(Loc, Content)' /\ Chain' /\ Appended(Loc, l) /\ Current(l)' = v
      /\ Newest(l)' = Newest(l) + 1 /\ hist'[l][Newest(l) + 1].val = v
      /\ \A u \in Thread : cur[u] \subseteq cur'[u]
      /\ <<l, Newest(l) + 1>> \in cur'[t] /\ sc \subseteq sc' /\ <<l, Newest(l) + 1>> \in sc'
  BY <1>2, <1>4, <1>7, Storing
<1>9. /\ \A k \in Loc \ {l} : hist'[k] = hist[k]
      /\ \A j \in 1..Newest(l) : hist'[l][j] = hist[l][j]
      /\ Newest(l) \in Nat /\ Newest(l) >= 1
  BY <1>7, <1>8, Lengths DEF Appended, Newest
<1>10. /\ Locals' /\ pc'[t] = "unlock" /\ Holds(t)' /\ t \notin MayMake' /\ \A u \in Thread \ {t} : Still(u)
  BY <1>2, <1>3 DEF Locals, Still, locals, Label, Holds, MayMake
<1>11. /\ \A b \in Bucket : hist'[Table(b)] = hist[Table(b)]
       /\ \A y \in Entry : hist'[KeyOf(y)] = hist[KeyOf(y)] /\ hist'[NextOf(y)] = hist[NextOf(y)]
       /\ \A y \in Entry : y # x => hist'[ValueOf(y)] = hist[ValueOf(y)]
  BY <1>1, <1>9, Locations DEF Fields
<1>12. Linked' = Linked /\ \A y \in Entry : KeyAt(y)' = KeyAt(y)
  <2>1. /\ \A y \in Entry : KeyAt(y)' = KeyAt(y) /\ Current(NextOf(y))' = Current(NextOf(y))
        /\ \A b \in Bucket : Current(Table(b))' = Current(Table(b))
    BY <1>11 DEF KeyAt, Current, Newest, Val
  <2> QED
    BY <1>2, <2>1, Bound DEF Linked
<1>13. hist'[ValueOf(x)][1] = hist[ValueOf(x)][1]
  <2>1. 1 \in 1..Newest(l)
    BY <1>9
  <2> QED
    BY <1>1, <1>9, <2>1
<1>14. Kept
  <2>1. \A y \in Linked : hist'[ValueOf(y)][1] = hist[ValueOf(y)][1]
    BY <1>11, <1>13, Bound
  <2> QED
    BY <1>2, <1>8, <1>11, <1>12, <2>1, Bound DEF Kept
<1>15. Values'
  <2>1. ASSUME NEW y \in Linked
        PROVE  /\ \A j \in 1..Newest(ValueOf(y))' :
                    Val(ValueOf(y), j)' \in Value \/ (j = 1 /\ Val(ValueOf(y), 1)' = Uninit)
               /\ Val(ValueOf(y), 1)' = Uninit => Newest(ValueOf(y))' >= 2
               /\ \A j \in 2..Newest(ValueOf(y))' : Made(y, j)' \/ <<ValueOf(y), j>> \in sc'
    <3>1. CASE y = x
      <4>1. /\ \A j \in 1..Newest(l) : Val(l, j)' = Val(l, j)
            /\ 1 \in 1..Newest(l) /\ hist'[l][Newest(l) + 1].val = v
        BY <1>8, <1>9 DEF Val
      <4>2. \A j \in 1..Newest(l)' : j \in 1..Newest(l) \/ j = Newest(l) + 1
        BY <1>8, <1>9
      <4>3. /\ \A j \in 1..Newest(l) : Val(l, j) \in Value \/ (j = 1 /\ Val(l, 1) = Uninit)
            /\ \A j \in 2..Newest(l) : (j = 2 /\ Val(l, 1) = Uninit) \/ <<l, j>> \in sc
        BY <1>1, <3>1 DEF IInv, Values, Made
      <4>4. \A j \in 1..Newest(l)' : Val(l, j)' \in Value \/ (j = 1 /\ Val(l, 1)' = Uninit)
        <5> SUFFICES ASSUME NEW j \in 1..Newest(l)'
                     PROVE  Val(l, j)' \in Value \/ (j = 1 /\ Val(l, 1)' = Uninit)
          OBVIOUS
        <5>1. CASE j \in 1..Newest(l)
          BY <4>1, <4>3, <5>1
        <5>2. CASE j = Newest(l) + 1
          <6>1. hist'[l][j].val \in Value
            BY <1>4, <4>1, <5>2
          <6> QED
            BY <6>1 DEF Val
        <5> QED
          BY <4>2, <5>1, <5>2
      <4>5. Newest(l)' >= 2
        BY <1>8, <1>9
      <4>6. ASSUME NEW j \in 2..Newest(l)'
            PROVE  (j = 2 /\ Val(l, 1)' = Uninit) \/ <<l, j>> \in sc'
        <5>1. j \in 2..Newest(l) \/ j = Newest(l) + 1
          BY <1>8, <1>9
        <5> QED
          BY <1>8, <4>1, <4>3, <5>1
      <4> QED
        BY <1>1, <3>1, <4>4, <4>5, <4>6 DEF Made
    <3>2. CASE y # x
      <4>1. hist'[ValueOf(y)] = hist[ValueOf(y)]
        BY <1>11, <3>2, Bound
      <4> QED
        BY <1>8, <4>1 DEF IInv, Values, Made, Newest, Val
    <3> QED
      BY <3>1, <3>2
  <2> QED
    BY <1>12, <2>1 DEF Values
<1>16. Lists' /\ Trails'
  BY <1>14, ListsKept
<1>17. Fresh'
  <2> SUFFICES ASSUME NEW y \in Entry, y > entries
               PROVE  (Blank(KeyOf(y)) /\ Blank(ValueOf(y)) /\ Blank(NextOf(y)))'
    BY <1>2 DEF Fresh
  <2>1. y # x
    BY <1>6, Bound
  <2>2. Blank(KeyOf(y)) /\ Blank(ValueOf(y)) /\ Blank(NextOf(y))
    BY DEF IInv, Fresh
  <2> QED
    BY <1>11, <2>1, <2>2 DEF Blank, Newest, Val
<1>18. Initials' /\ Held' /\ Passed' /\ Mutual'
  <2>1. \A s : Guarded(s)' = Guarded(s)
    BY <1>2, <1>12, Bound DEF Guarded
  <2>2. \A s : s # Seg(t) => l \notin Guarded(s)
    BY <1>1, <1>7, GuardedApart DEF Fields
  <2>3. \A k \in Guarded(Seg(t)) : k \in Loc /\ Knows(t, k)
    BY <1>2, GuardedIn DEF IInv, Handover, Held
  <2>4. \A k \in Guarded(Seg(t))' : k \in Loc /\ Knows(t, k)
    <3>1. PICK s : s = Seg(t) /\ s = Seg(t)'
      BY <1>2 DEF Seg, locals
    <3> QED
      BY <2>1, <2>3, <3>1
  <2>5. \A r : l # Mutex(r)
    BY <1>1, Locations DEF Fields
  <2>6. key'[t] = key[t]
    BY <1>2 DEF locals
  <2> QED
    BY <1>2, <1>7, <1>8, <1>10, <2>1, <2>2, <2>4, <2>5, <2>6, GuardedWrite
<1>19. \A y \in Linked \ {x} : Current(ValueOf(y))' = Current(ValueOf(y))
  BY <1>11, Bound DEF Current, Newest, Val
<1>20. ASSUME NEW u \in Thread \ {t}
       PROVE  Well(u)'
  <2>1. pc[u] = "putValue" => Current(ValueOf(e[u]))' = Current(ValueOf(e[u]))
    <3> SUFFICES ASSUME pc[u] = "putValue"
                 PROVE  Current(ValueOf(e[u]))' = Current(ValueOf(e[u]))
      OBVIOUS
    <3>1. PICK y : y = e[u] /\ y = e'[u]
      BY <1>10 DEF Still
    <3>2. y \in Linked /\ KeyAt(y) = key[u] /\ Holds(u)
      BY <3>1 DEF IInv, Well, SearchWell, Holds, PutLabel
    <3>3. Seg(u) # Seg(t)
      BY <1>2, <3>2 DEF IInv, Mutual
    <3>4. y # x
      BY <1>5, <3>2, <3>3 DEF Seg
    <3>5. Current(ValueOf(y))' = Current(ValueOf(y))
      BY <1>19, <3>2, <3>4
    <3> QED
      BY <3>1, <3>5 DEF Current, Newest, Val
  <2>2. pc[u] \in MakeLabel => \A k \in Fields(e[u]) : hist'[k] = hist[k]
    <3>1. pc[u] \in MakeLabel => e[u] \in Entry /\ e[u] # x
      BY <1>5, Bound DEF IInv, Well, MakeWell
    <3> QED
      BY <1>11, <3>1 DEF Fields
  <2> QED
    BY <1>10, <1>14, <2>1, <2>2, WellKept
<1>21. Well(t)'
  BY <1>2, <1>4, <1>10 DEF Well, CallWell, WalkWell, SearchWell, MakeWell, WalkLabel, AbsentLabel,
                           MakeLabel, PutLabel, locals
<1>22. Types' /\ Room'
  <2>1. PICK S : S = MayMake'
    OBVIOUS
  <2>2. S \subseteq MayMake
    BY <1>10, <2>1 DEF MayMake, Still
  <2>3. puts \in Nat
    BY <1>3, Longest DEF Locals
  <2> QED
    BY <1>2, <1>8, <1>10, <2>1, <2>2, <2>3, RoomKept DEF Types
<1>23. Current(ValueOf(e[t]))' = value[t]
  <2>1. PICK z, w : z = e'[t] /\ z = x /\ w = value'[t] /\ w = v
    BY <1>1, <1>2 DEF locals
  <2>2. Current(ValueOf(z))' = v
    BY <1>1, <1>8, <2>1
  <2> QED
    BY <1>1, <2>1, <2>2
<1> QED
  BY <1>1, <1>5, <1>8, <1>14, <1>15, <1>16, <1>17, <1>18, <1>19, <1>20, <1>21, <1>22, <1>23 DEF IInv, Handover

(* put() links the entry it has made: what changes, and what does not.     *)
LEMMA Published ==
  ASSUME IInv, NEW t \in Thread, Put_Publish(t), NEW x, x = e[t], NEW b, b = Home(t)
  PROVE  /\ Holds(t) /\ b \in Bucket /\ Table(b) \in Loc /\ Knows(t, Table(b)) /\ key[t] \in Key
         /\ x \in 1..entries /\ x \in Entry /\ x \in Nat /\ x \notin Linked /\ KeyAt(x) = key[t]
         /\ \A y \in In(b) : y < x /\ y \in Nat /\ KeyAt(y) # key[t]
         /\ value[t] \in Value /\ Current(NextOf(x)) = Current(Table(b))
         /\ Newest(ValueOf(x)) = 2 /\ Val(ValueOf(x), 1) = Uninit /\ Val(ValueOf(x), 2) = value[t]
         /\ MemType(Loc, Content)' /\ Chain' /\ Appended(Loc, Table(b)) /\ sc' = sc
         /\ Newest(Table(b))' = Newest(Table(b)) + 1 /\ Newest(Table(b)) \in Nat
         /\ Current(Table(b))' = x
         /\ hist'[Table(b)][Newest(Table(b)) + 1].val = x
         /\ hist'[Table(b)][Newest(Table(b)) + 1].view = cur[t]
         /\ \A u \in Thread : cur[u] \subseteq cur'[u]
         /\ NextEvent(Table(b)) \in cur'[t]
         /\ Locals' /\ pc'[t] = "unlock" /\ Holds(t)' /\ \A u \in Thread \ {t} : Still(u)
         /\ UNCHANGED locals /\ UNCHANGED <<entries, puts, gets>>
<1>1. PICK l : l = Table(b)
  OBVIOUS
<1>2. /\ pc[t] = "publish" /\ pc' = [pc EXCEPT ![t] = "unlock"] /\ Store(t, First(t), x, release)
      /\ UNCHANGED locals /\ UNCHANGED <<entries, puts, gets>> /\ Holds(t)
  BY DEF Put_Publish, Goto, MoveTo, OrderPublish, Holds, PutLabel
<1>3. CallWell(t) /\ SearchWell(t) /\ MakeWell(t) /\ Locals
  BY DEF IInv, Well, Types
<1>4. b \in Bucket /\ l \in Loc /\ key[t] \in Key /\ First(t) = l /\ Knows(t, l)
  BY <1>1, <1>2, HomeType, HolderKnows
<1>5. /\ x \in 1..entries /\ x \notin Linked /\ KeyAt(x) = key[t]
      /\ \A y \in In(b) : y < x /\ KeyAt(y) # key[t]
      /\ value[t] \in Value /\ Current(NextOf(x)) = Current(l)
      /\ Newest(ValueOf(x)) = 2 /\ Val(ValueOf(x), 1) = Uninit /\ Val(ValueOf(x), 2) = value[t]
  BY <1>2, <1>3, <1>4 DEF CallWell, SearchWell, MakeWell, AbsentLabel, MakeLabel, PutLabel
<1>6. x \in Entry /\ x \in Nat /\ x \in Content /\ \A y \in In(b) : y \in Nat
  BY <1>4, <1>5, Bound, Ranges, HeadOf
<1>7. /\ MemType(Loc, Content)' /\ Chain' /\ Appended(Loc, l)
      /\ Newest(l)' = Newest(l) + 1 /\ Current(l)' = x
      /\ hist'[l][Newest(l) + 1].val = x
      /\ hist'[l][Newest(l) + 1].view = Released(t, release)
      /\ \A u \in Thread : cur[u] \subseteq cur'[u]
      /\ <<l, Newest(l) + 1>> \in cur'[t]
  BY <1>2, <1>4, <1>6, Storing
<1>8. Released(t, release) = cur[t] /\ sc' = sc
  BY <1>2 DEF Released, Releasing, release, Store, JoinSC, seq_cst
<1>9. /\ Locals' /\ pc'[t] = "unlock" /\ Holds(t)' /\ \A u \in Thread \ {t} : Still(u)
  BY <1>2, <1>3 DEF Locals, Still, locals, Label, Holds
<1>10. Newest(l) \in Nat
  BY <1>4, Lengths
<1>11. l = Table(b)
  BY <1>1
<1> QED
  BY <1>2, <1>4, <1>5, <1>6, <1>7, <1>8, <1>9, <1>10, <1>11 DEF NextEvent

(* Of the locations only the head of the list changes.                     *)
LEMMA PublishedRest ==
  ASSUME IInv, NEW t \in Thread, Put_Publish(t), NEW x, x = e[t], NEW b, b = Home(t)
  PROVE  /\ \A c \in Bucket : c # b => /\ hist'[Table(c)] = hist[Table(c)]
                                       /\ Current(Table(c))' = Current(Table(c))
         /\ \A y \in Entry : \A l \in Fields(y) : hist'[l] = hist[l]
         /\ \A y \in Entry : /\ KeyAt(y)' = KeyAt(y) /\ Current(NextOf(y))' = Current(NextOf(y))
                             /\ Current(ValueOf(y))' = Current(ValueOf(y))
                             /\ Newest(ValueOf(y))' = Newest(ValueOf(y))
                             /\ \A i : Val(ValueOf(y), i)' = Val(ValueOf(y), i)
         /\ \A y \in Entry : \A view : KnowsEntry(view, y) => KnowsEntry(view, y)'
         /\ Linked' = Linked \cup {x}
         /\ \A c : In(c)' = In(c) \cup (IF c = b THEN {x} ELSE {})
<1>1. /\ b \in Bucket /\ Table(b) \in Loc /\ Appended(Loc, Table(b)) /\ Current(Table(b))' = x
      /\ x \in Entry /\ x \in Nat /\ KeyAt(x) = key[t] /\ Current(NextOf(x)) = Current(Table(b))
      /\ x \in 1..entries /\ entries' = entries /\ key'[t] = key[t]
  BY Published DEF locals
<1>2. \A k \in Loc \ {Table(b)} : hist'[k] = hist[k]
  BY <1>1 DEF Appended
<1>3. \A c \in Bucket : c # b => hist'[Table(c)] = hist[Table(c)]
  BY <1>2, Locations
<1>4. \A y \in Entry : \A l \in Fields(y) : hist'[l] = hist[l]
  BY <1>2, Locations DEF Fields
<1>5. \A y \in Entry : /\ hist'[KeyOf(y)] = hist[KeyOf(y)] /\ hist'[ValueOf(y)] = hist[ValueOf(y)]
                       /\ hist'[NextOf(y)] = hist[NextOf(y)]
  BY <1>4 DEF Fields
<1>6. \A y \in Entry : /\ KeyAt(y)' = KeyAt(y) /\ Current(NextOf(y))' = Current(NextOf(y))
                       /\ Current(ValueOf(y))' = Current(ValueOf(y))
                       /\ Newest(ValueOf(y))' = Newest(ValueOf(y))
                       /\ \A i : Val(ValueOf(y), i)' = Val(ValueOf(y), i)
  BY <1>5 DEF KeyAt, Current, Newest, Val
<1>7. \A y \in Entry : \A view : KnowsEntry(view, y) => KnowsEntry(view, y)'
  BY <1>5 DEF KnowsEntry, Carries, Newest, Val
<1>8. \A c \in Bucket : c # b => Current(Table(c))' = Current(Table(c))
  BY <1>3 DEF Current, Newest, Val
<1>9. Linked' = Linked \cup {x}
  <2>1. \A p : p \in Linked' <=>
          /\ p # null /\ p # Uninit
          /\ (\E c \in Bucket : p = Current(Table(c))') \/ (\E y \in 1..entries : p = Current(NextOf(y))')
    BY <1>1 DEF Linked
  <2>2. \A p : p \in Linked <=>
          /\ p # null /\ p # Uninit
          /\ (\E c \in Bucket : p = Current(Table(c))) \/ (\E y \in 1..entries : p = Current(NextOf(y)))
    BY DEF Linked
  <2>3. \A y \in 1..entries : Current(NextOf(y))' = Current(NextOf(y))
    BY <1>6, Bound
  <2>4. x # null /\ x # Uninit
    BY <1>1, Ranges
  <2>5. \A p \in Linked' : p \in Linked \cup {x}
    BY <1>1, <1>8, <2>1, <2>2, <2>3
  <2>6. \A p \in Linked : p \in Linked'
    BY <1>1, <1>8, <2>1, <2>2, <2>3
  <2>7. x \in Linked'
    BY <1>1, <2>1, <2>4
  <2> QED
    BY <2>5, <2>6, <2>7
<1>10. \A c : In(c)' = In(c) \cup (IF c = b THEN {x} ELSE {})
  <2>1. \A y \in Linked \cup {x} : BucketOf(KeyAt(y)') = BucketOf(KeyAt(y))
    BY <1>1, <1>6, Bound
  <2>2. BucketOf(KeyAt(x)) = b
    BY <1>1 DEF Home
  <2>3. \A c, y : y \in In(c)' <=> y \in Linked' /\ BucketOf(KeyAt(y)') = c
    BY DEF In, BucketOf
  <2>4. \A c, y : y \in In(c) <=> y \in Linked /\ BucketOf(KeyAt(y)) = c
    BY DEF In
  <2> QED
    BY <1>9, <2>1, <2>2, <2>3, <2>4
<1> QED
  BY <1>3, <1>4, <1>6, <1>7, <1>8, <1>9, <1>10

LEMMA PublishedLists ==
  ASSUME IInv, NEW t \in Thread, Put_Publish(t)
  PROVE  Lists'
<1>1. PICK x, b : x = e[t] /\ b = Home(t)
  OBVIOUS
<1>2. /\ Holds(t) /\ b \in Bucket /\ Table(b) \in Loc /\ key[t] \in Key
      /\ x \in 1..entries /\ x \in Entry /\ x \in Nat /\ x \notin Linked /\ KeyAt(x) = key[t]
      /\ (\A y \in In(b) : y < x /\ y \in Nat /\ KeyAt(y) # key[t])
      /\ Current(NextOf(x)) = Current(Table(b)) /\ entries' = entries
      /\ Appended(Loc, Table(b)) /\ Newest(Table(b))' = Newest(Table(b)) + 1
      /\ Newest(Table(b)) \in Nat /\ Current(Table(b))' = x
      /\ hist'[Table(b)][Newest(Table(b)) + 1].val = x
  BY <1>1, Published
<1>3. /\ \A c \in Bucket : c # b => /\ hist'[Table(c)] = hist[Table(c)]
                                    /\ Current(Table(c))' = Current(Table(c))
      /\ \A y \in Entry : KeyAt(y)' = KeyAt(y) /\ Current(NextOf(y))' = Current(NextOf(y))
      /\ Linked' = Linked \cup {x}
      /\ \A c : In(c)' = In(c) \cup (IF c = b THEN {x} ELSE {})
  BY <1>1, PublishedRest
<1>4. /\ Linked \subseteq 1..entries /\ Linked \subseteq Entry
      /\ \A y \in Linked : KeyAt(y) \in Key
      /\ \A y, z \in Linked : KeyAt(y) = KeyAt(z) => y = z
  BY Bound DEF IInv, Lists
<1>5. \A y \in Linked : KeyAt(y) # key[t]
  BY <1>1, <1>2 DEF In, Home
<1>6. Linked' \subseteq 1..entries' /\ \A y \in Linked' : KeyAt(y)' \in Key
  BY <1>2, <1>3, <1>4
<1>7. \A y, z \in Linked' : KeyAt(y)' = KeyAt(z)' => y = z
  BY <1>2, <1>3, <1>4, <1>5
<1>8. ASSUME NEW c \in Bucket
      PROVE  IsLast(Current(Table(c)), In(c))'
  <2>1. CASE c = b
    <3>1. x # null /\ x <= x
      BY <1>2, Ranges
    <3>2. \A y \in In(b) : y <= x
      BY <1>2
    <3>3. In(b)' = In(b) \cup {x} /\ Current(Table(b))' = x
      BY <1>2, <1>3
    <3>4. PICK p, S : p = Current(Table(c))' /\ S = In(c)'
      OBVIOUS
    <3>5. IsLast(p, S)
      BY <2>1, <3>1, <3>2, <3>3, <3>4 DEF IsLast
    <3> QED
      BY <3>4, <3>5 DEF IsLast
  <2>2. CASE c # b
    BY <1>3, <2>2, HeadOf DEF IsLast
  <2> QED
    BY <2>1, <2>2
<1>9. ASSUME NEW c \in Bucket, NEW i \in 1..Newest(Table(c))'
      PROVE  Val(Table(c), i)' \in In(c)' \cup {null}
  <2>1. \A j \in 1..Newest(Table(c)) : Val(Table(c), j) \in In(c) \cup {null}
    BY DEF IInv, Lists
  <2>2. CASE c = b
    <3>1. i \in 1..Newest(Table(b)) \/ i = Newest(Table(b)) + 1
      BY <1>2, <2>2
    <3>2. \A j \in 1..Newest(Table(b)) : Val(Table(b), j)' = Val(Table(b), j)
      BY <1>2 DEF Appended, Val, Newest
    <3> QED
      BY <1>2, <1>3, <2>1, <2>2, <3>1, <3>2 DEF Val
  <2>3. CASE c # b
    BY <1>3, <2>1, <2>3 DEF Newest, Val
  <2> QED
    BY <2>2, <2>3
<1>10. ASSUME NEW y \in Linked'
       PROVE  IsLast(Current(NextOf(y)), {z \in In(BucketOf(KeyAt(y))) : z < y})'
  <2>1. PICK c, p : c = BucketOf(KeyAt(y)) /\ p = Current(NextOf(y))
    OBVIOUS
  <2>2. BucketOf(KeyAt(y)') = c /\ Current(NextOf(y))' = p /\ c \in Bucket
    BY <1>2, <1>3, <1>4, <2>1, KeyType
  <2>3. PICK S : S = {z \in In(c)' : z < y}
    OBVIOUS
  <2>4. CASE y = x
    <3>1. c = b /\ p = Current(Table(b))
      BY <1>1, <1>2, <2>1, <2>4 DEF Home
    <3>2. ~(x < x)
      BY <1>2
    <3>3. S = In(b)
      BY <1>2, <1>3, <2>3, <2>4, <3>1, <3>2
    <3> QED
      BY <1>2, <2>2, <2>3, <3>1, <3>3, HeadOf DEF IsLast, BucketOf
  <2>5. CASE y # x
    <3>1. y \in Linked /\ IsLast(p, {z \in In(c) : z < y})
      BY <1>3, <2>1, <2>5 DEF IInv, Lists
    <3>2. c = b => ~(x < y)
      <4>1. c = b => y \in In(b)
        BY <2>1, <3>1 DEF In
      <4> QED
        BY <1>2, <4>1
    <3>3. S = {z \in In(c) : z < y}
      BY <1>3, <2>3, <3>2
    <3> QED
      BY <2>2, <2>3, <3>1, <3>3 DEF IsLast, BucketOf
  <2> QED
    BY <2>4, <2>5
<1> QED
  BY <1>6, <1>7, <1>8, <1>9, <1>10 DEF Lists

(* The pointer to the new entry passes on what the put() knows.            *)
LEMMA PublishedTrails ==
  ASSUME IInv, NEW t \in Thread, Put_Publish(t)
  PROVE  Trails'
<1>1. PICK x, b : x = e[t] /\ b = Home(t)
  OBVIOUS
<1>2. PICK T, n : T = Table(b) /\ n = Newest(T)
  OBVIOUS
<1>3. /\ Holds(t) /\ b \in Bucket /\ T \in Loc /\ key[t] \in Key
      /\ x \in 1..entries /\ x \in Entry /\ x \in Nat /\ x \notin Linked /\ KeyAt(x) = key[t]
      /\ (\A y \in In(b) : y < x /\ y \in Nat /\ KeyAt(y) # key[t])
      /\ Newest(ValueOf(x)) = 2
      /\ Appended(Loc, T) /\ Newest(T)' = n + 1 /\ n \in Nat
      /\ hist'[T][n + 1].val = x /\ hist'[T][n + 1].view = cur[t]
  BY <1>1, <1>2, Published
<1>4. /\ \A c \in Bucket : c # b => hist'[Table(c)] = hist[Table(c)]
      /\ \A y \in Entry : \A view : KnowsEntry(view, y) => KnowsEntry(view, y)'
      /\ \A c : In(c)' = In(c) \cup (IF c = b THEN {x} ELSE {})
  BY <1>1, PublishedRest
<1>5. \A c : In(c) \subseteq Entry
  BY Bound DEF In
<1>6. KnowsEntry(cur[t], x) /\ \A y \in In(b) : KnowsEntry(cur[t], y)
  <2>1. Knows(t, KeyOf(x)) /\ Knows(t, NextOf(x)) /\ Knows(t, ValueOf(x))
    BY <1>3, HolderKnows
  <2>2. KeyOf(x) \in Loc /\ NextOf(x) \in Loc
    BY <1>3, Locations
  <2>3. KnowsEntry(cur[t], x)
    BY <1>3, <2>1, <2>2, Lengths DEF KnowsEntry, Carries, Knows
  <2> QED
    BY <1>1, <1>3, <2>3, HolderKnows
<1> SUFFICES ASSUME NEW c \in Bucket, NEW i \in 1..Newest(Table(c))', NEW y \in In(c)',
                    Val(Table(c), i)' # null, y <= Val(Table(c), i)'
             PROVE  KnowsEntry(hist[Table(c)][i].view, y)'
  BY DEF Trails
<1>7. PICK view, p : view = hist'[Table(c)][i].view /\ p = hist'[Table(c)][i].val
  OBVIOUS
<1>8. \A j \in 1..Newest(Table(c)), z \in In(c) :
        Val(Table(c), j) # null /\ z <= Val(Table(c), j) => KnowsEntry(hist[Table(c)][j].view, z)
  BY DEF IInv, Handover, Trails
<1>9. CASE c # b
  <2>1. hist'[Table(c)] = hist[Table(c)] /\ y \in In(c) /\ y \in Entry
    BY <1>4, <1>5, <1>9
  <2>2. KnowsEntry(view, y)
    BY <1>7, <1>8, <2>1 DEF Val, Newest
  <2>3. KnowsEntry(view, y)'
    BY <1>4, <2>1, <2>2
  <2> QED
    BY <1>7, <2>3 DEF KnowsEntry
<1>10. CASE c = b /\ i # n + 1
  <2>1. i \in 1..n
    BY <1>2, <1>3, <1>10
  <2>2. hist'[T][i] = hist[T][i]
    BY <1>2, <1>3, <2>1 DEF Appended, Newest
  <2>3. p = Val(T, i) /\ p # null /\ y <= p /\ view = hist[T][i].view
    BY <1>2, <1>7, <1>10, <2>2 DEF Val
  <2>4. p \in In(b)
    BY <1>2, <1>3, <2>1, <2>3 DEF IInv, Lists
  <2>5. y # x
    BY <1>3, <2>3, <2>4
  <2>6. y \in In(b) /\ y \in Entry
    BY <1>4, <1>5, <1>10, <2>5
  <2>7. KnowsEntry(view, y)
    BY <1>2, <1>8, <1>10, <2>1, <2>3, <2>6
  <2>8. KnowsEntry(view, y)'
    BY <1>4, <2>6, <2>7
  <2> QED
    BY <1>7, <2>8 DEF KnowsEntry
<1>11. CASE c = b /\ i = n + 1
  <2>1. view = cur[t]
    BY <1>2, <1>3, <1>7, <1>11
  <2>2. y \in Entry /\ KnowsEntry(view, y)
    BY <1>3, <1>4, <1>5, <1>6, <1>11, <2>1
  <2>3. KnowsEntry(view, y)'
    BY <1>4, <2>2
  <2> QED
    BY <1>7, <2>3 DEF KnowsEntry
<1> QED
  BY <1>9, <1>10, <1>11

LEMMA PublishedValues ==
  ASSUME IInv, NEW t \in Thread, Put_Publish(t)
  PROVE  Values'
<1>1. PICK x : x = e[t]
  OBVIOUS
<1>2. /\ x \in Entry /\ value[t] \in Value /\ sc' = sc
      /\ Newest(ValueOf(x)) = 2 /\ Val(ValueOf(x), 1) = Uninit /\ Val(ValueOf(x), 2) = value[t]
  BY <1>1, Published
<1>3. /\ Linked' = Linked \cup {x}
      /\ \A y \in Entry : /\ Newest(ValueOf(y))' = Newest(ValueOf(y))
                          /\ \A i : Val(ValueOf(y), i)' = Val(ValueOf(y), i)
  BY <1>1, PublishedRest
<1>4. ASSUME NEW y \in Linked'
      PROVE  /\ \A j \in 1..Newest(ValueOf(y)) :
                  Val(ValueOf(y), j) \in Value \/ (j = 1 /\ Val(ValueOf(y), 1) = Uninit)
             /\ Val(ValueOf(y), 1) = Uninit => Newest(ValueOf(y)) >= 2
             /\ \A j \in 2..Newest(ValueOf(y)) : Made(y, j) \/ <<ValueOf(y), j>> \in sc
  <2>1. CASE y = x
    <3>1. /\ \A j \in 1..2 : j = 1 \/ j = 2
          /\ \A j \in 2..2 : j = 2
      OBVIOUS
    <3> QED
      BY <1>2, <2>1, <3>1 DEF Made
  <2>2. CASE y \in Linked
    BY <2>2 DEF IInv, Values
  <2> QED
    BY <1>3, <2>1, <2>2
<1>5. \A y \in Linked' : y \in Entry
  BY <1>2, <1>3, Bound
<1> QED
  BY <1>2, <1>3, <1>4, <1>5 DEF Values, Made

(* The walks of the others do not meet the new entry: it is ahead of them. *)
LEMMA PublishedOthers ==
  ASSUME IInv, NEW t \in Thread, Put_Publish(t), NEW u \in Thread \ {t}
  PROVE  Well(u)'
<1>1. PICK x, b : x = e[t] /\ b = Home(t)
  OBVIOUS
<1>2. /\ Holds(t) /\ b \in Bucket /\ pc[t] \in MakeLabel
      /\ x \in 1..entries /\ x \in Entry /\ x \in Nat /\ x \notin Linked /\ KeyAt(x) = key[t]
      /\ (\A y \in In(b) : y < x /\ y \in Nat)
      /\ \A v \in Thread : cur[v] \subseteq cur'[v]
      /\ Still(u) /\ entries' = entries
  BY <1>1, Published DEF Put_Publish, Goto, MakeLabel
<1>3. /\ \A c \in Bucket : c # b => Current(Table(c))' = Current(Table(c))
      /\ \A y \in Entry : /\ KeyAt(y)' = KeyAt(y) /\ Current(NextOf(y))' = Current(NextOf(y))
                          /\ Current(ValueOf(y))' = Current(ValueOf(y))
                          /\ Newest(ValueOf(y))' = Newest(ValueOf(y))
                          /\ \A i : Val(ValueOf(y), i)' = Val(ValueOf(y), i)
      /\ \A y \in Entry : \A l \in Fields(y) : hist'[l] = hist[l]
      /\ \A y \in Entry : \A view : KnowsEntry(view, y) => KnowsEntry(view, y)'
      /\ Linked' = Linked \cup {x}
      /\ \A c : In(c)' = In(c) \cup (IF c = b THEN {x} ELSE {})
  BY <1>1, PublishedRest
<1>4. PICK c, a : c = Home(u) /\ c = Home(u)' /\ a = e[u] /\ a = e'[u]
  BY <1>2 DEF Home, Still
<1>5. In(c)' = In(c) \cup (IF c = b THEN {x} ELSE {}) /\ In(c) \subseteq Linked /\ Linked \subseteq Entry
  BY <1>3, Bound DEF In
<1>6. WalkWell(u) /\ SearchWell(u) /\ MakeWell(u)
  BY DEF IInv, Well
<1>7. \A y \in In(c) : KeyAt(y)' = KeyAt(y)
  BY <1>3, <1>5
<1>8. \A y \in Entry : KnowsEntry(cur[u], y) => KnowsEntry(cur[u], y)'
  <2>1. PICK view : view = cur[u]
    OBVIOUS
  <2>2. \A y \in Entry : KnowsEntry(view, y) => KnowsEntry(view, y)'
    BY <1>3
  <2> QED
    BY <1>2, <2>1, <2>2 DEF KnowsEntry, Carries
<1>9. WalkWell(u)'
  <2> SUFFICES ASSUME pc[u] \in WalkLabel
               PROVE  WalkWell(u)'
    BY <1>2 DEF WalkWell, Still
  <2>1. a \in In(c) /\ \A y \in In(c) : y <= a => KnowsEntry(cur[u], y)
    BY <1>4, <1>6 DEF WalkWell
  <2>2. \A y \in In(c)' : y <= a => y \in In(c)
    <3>1. c = b => ~(x <= a)
      BY <1>2, <2>1
    <3> QED
      BY <1>5, <3>1
  <2>3. \A y \in In(c)' : y <= a => KnowsEntry(cur[u], y)'
    BY <1>5, <1>8, <2>1, <2>2
  <2> QED
    BY <1>4, <1>5, <2>1, <2>3 DEF WalkWell
<1>10. Holds(u) => c # b /\ In(c)' = In(c)
  <2> SUFFICES ASSUME Holds(u)
               PROVE  c # b
    BY <1>5
  <2>1. Seg(u) # Seg(t) /\ pc[u] # "idle" /\ pc[t] # "idle"
    BY <1>2 DEF IInv, Mutual, Holds, PutLabel, MakeLabel
  <2> QED
    BY <1>1, <1>4, <2>1, HomeType
<1>11. Holds(u) => Current(First(u))' = Current(First(u))
  <2> SUFFICES ASSUME Holds(u)
               PROVE  Current(First(u))' = Current(First(u))
    OBVIOUS
  <2>1. First(u) = Table(c) /\ First(u)' = Table(c) /\ c \in Bucket
    BY <1>2, <1>4, HomeType DEF Holds, PutLabel, First, Still
  <2>2. Current(Table(c))' = Current(Table(c))
    BY <1>3, <1>10, <2>1
  <2> QED
    BY <2>1, <2>2 DEF Current, Newest, Val
<1>12. \A p \in In(c), y \in In(c)' : y <= p => y \in In(c)
  <2>1. c = b => \A p \in In(c) : ~(x <= p)
    BY <1>2
  <2> QED
    BY <1>5, <2>1
<1>13. SearchWell(u)'
  <2>1. PICK p, k : p = first[u] /\ p = first'[u] /\ k = key[u] /\ k = key'[u]
    BY <1>2 DEF Still
  <2>2. pc'[u] = pc[u] /\ old'[u] = old[u]
    BY <1>2 DEF Still
  <2>3. /\ pc[u] \in {"walk", "lock", "recheck"} => p \in In(c) \cup {null}
        /\ pc[u] = "walk" => p # null
        /\ pc[u] = "walk" => \A y \in In(c) : a < y /\ y <= p => KeyAt(y) # k
        /\ pc[u] \in {"lock", "recheck"} =>
             a = null /\ \A y \in In(c) : p # null /\ y <= p => KeyAt(y) # k
        /\ pc[u] \in {"putWalk", "walkAgain"} => \A y \in In(c) : a < y => KeyAt(y) # k
        /\ pc[u] \in AbsentLabel => \A y \in In(c) : KeyAt(y) # k
        /\ pc[u] \in {"putWalk"} \cup AbsentLabel => p = Current(First(u))
        /\ pc[u] = "putValue" => a \in Linked /\ KeyAt(a) = k /\ old[u] = Current(ValueOf(a))
    BY <1>4, <1>6, <2>1 DEF SearchWell
  <2>4. pc[u] \in {"putWalk", "walkAgain"} \cup AbsentLabel => Holds(u)
    BY DEF AbsentLabel, MakeLabel, Holds, PutLabel
  <2>5. /\ pc[u] \in {"walk", "lock", "recheck"} => p \in In(c)' \cup {null}
        /\ pc[u] = "walk" => \A y \in In(c)' : a < y /\ y <= p => KeyAt(y)' # k
        /\ pc[u] \in {"lock", "recheck"} =>
             a = null /\ \A y \in In(c)' : p # null /\ y <= p => KeyAt(y)' # k
    BY <1>5, <1>7, <1>12, <2>3
  <2>6. /\ pc[u] \in {"putWalk", "walkAgain"} => \A y \in In(c)' : a < y => KeyAt(y)' # k
        /\ pc[u] \in AbsentLabel => \A y \in In(c)' : KeyAt(y)' # k
        /\ pc[u] \in {"putWalk"} \cup AbsentLabel => p = Current(First(u))'
    BY <1>7, <1>10, <1>11, <2>3, <2>4
  <2>7. pc[u] = "putValue" => a \in Linked' /\ KeyAt(a)' = k /\ old[u] = Current(ValueOf(a))'
    BY <1>3, <1>5, <2>3
  <2> QED
    BY <1>4, <2>1, <2>2, <2>3, <2>5, <2>6, <2>7 DEF SearchWell
<1>14. MakeWell(u)'
  <2> SUFFICES ASSUME pc[u] \in MakeLabel
               PROVE  MakeWell(u)'
    BY <1>2 DEF MakeWell, Still
  <2>1. a # x /\ Holds(u)
    BY <1>1, <1>2, <1>4, MakersApart DEF Holds, MakeLabel, PutLabel
  <2>2. a \in 1..entries /\ a \notin Linked /\ a \in Entry
    BY <1>4, <1>6, Bound DEF MakeWell
  <2>3. \A l \in Fields(a) : hist'[l] = hist[l]
    BY <1>3, <2>2
  <2>4. /\ KeyAt(a)' = KeyAt(a) /\ Current(NextOf(a))' = Current(NextOf(a))
        /\ Blank(ValueOf(a))' = Blank(ValueOf(a)) /\ Blank(NextOf(a))' = Blank(NextOf(a))
        /\ Newest(ValueOf(a))' = Newest(ValueOf(a)) /\ \A i : Val(ValueOf(a), i)' = Val(ValueOf(a), i)
    BY <2>3 DEF Fields, KeyAt, Current, Blank, Newest, Val
  <2>5. a \in 1..entries' /\ a \notin Linked'
    BY <1>2, <1>3, <2>1, <2>2
  <2> QED
    BY <1>2, <1>4, <1>6, <1>10, <2>1, <2>4, <2>5 DEF MakeWell, Still
<1> QED
  BY <1>2, <1>9, <1>13, <1>14, CallKept DEF Well

LEMMA PutPublishStep ==
  ASSUME IInv, NEW t \in Thread, Put_Publish(t)
  PROVE  IInv'
<1>1. PICK x, b : x = e[t] /\ b = Home(t)
  OBVIOUS
<1>2. PICK l : l = Table(b)
  OBVIOUS
<1>3. /\ Holds(t) /\ b \in Bucket /\ l \in Loc /\ Knows(t, l) /\ key[t] \in Key
      /\ x \in Entry /\ MemType(Loc, Content)' /\ Chain' /\ Appended(Loc, l) /\ sc' = sc
      /\ \A u \in Thread : cur[u] \subseteq cur'[u]
      /\ NextEvent(l) \in cur'[t]
      /\ Locals' /\ pc'[t] = "unlock" /\ Holds(t)' /\ \A u \in Thread \ {t} : Still(u)
      /\ UNCHANGED locals /\ UNCHANGED <<entries, puts, gets>>
  BY <1>1, <1>2, Published
<1>4. /\ \A y \in Entry : \A k \in Fields(y) : hist'[k] = hist[k]
      /\ \A y \in Entry : KeyAt(y)' = KeyAt(y)
  BY <1>1, PublishedRest
<1>5. Fresh'
  <2>1. \A y \in Entry : Blank(KeyOf(y))' = Blank(KeyOf(y)) /\ Blank(ValueOf(y))' = Blank(ValueOf(y))
                         /\ Blank(NextOf(y))' = Blank(NextOf(y))
    BY <1>4 DEF Fields, Blank, Newest, Val
  <2> QED
    BY <1>3, <2>1 DEF IInv, Fresh
<1>6. Initials' /\ Held' /\ Passed' /\ Mutual'
  <2>1. \A s : Guarded(s)' = Guarded(s)
    BY <1>3, <1>4, Bound DEF Guarded
  <2>2. \A s : s # Seg(t) => l \notin Guarded(s)
    <3>1. l \in Guarded(Seg(t))
      BY <1>1, <1>2, <1>3, GuardedIs DEF Holds, PutLabel
    <3> QED
      BY <3>1, GuardedApart
  <2>3. \A k \in Guarded(Seg(t)) : k \in Loc /\ Knows(t, k)
    BY <1>3, GuardedIn DEF IInv, Handover, Held
  <2>4. \A k \in Guarded(Seg(t))' : k \in Loc /\ Knows(t, k)
    <3>1. PICK s : s = Seg(t) /\ s = Seg(t)'
      BY <1>3 DEF Seg, locals
    <3> QED
      BY <2>1, <2>3, <3>1
  <2>5. \A r : l # Mutex(r)
    BY <1>2, Locations
  <2>6. key'[t] = key[t]
    BY <1>3 DEF locals
  <2> QED
    BY <1>3, <2>1, <2>2, <2>4, <2>5, <2>6, GuardedWrite DEF NextEvent
<1>7. Well(t)'
  <2>1. CallWell(t)'
    BY <1>3 DEF CallWell, PutLabel, locals
  <2> QED
    BY <1>3, <2>1 DEF Well, WalkWell, SearchWell, MakeWell, WalkLabel, AbsentLabel, MakeLabel
<1>8. Types' /\ Room'
  <2>1. PICK S : S = MayMake'
    OBVIOUS
  <2>2. S \subseteq MayMake
    BY <1>3, <2>1 DEF MayMake, Still
  <2>3. puts \in Nat
    BY Longest DEF IInv, Types, Locals
  <2> QED
    BY <1>3, <2>1, <2>2, <2>3, RoomKept DEF Types
<1> QED
  BY <1>3, <1>5, <1>6, <1>7, <1>8, PublishedLists, PublishedTrails, PublishedValues, PublishedOthers
     DEF IInv, Handover

-----------------------------------------------------------------------------
(* The lists a driver has made before the threads: the keys of a bucket    *)
(* before the i-th, and the last of them.                                  *)
Older(before, i, b) == {j \in 1..Len(before) : j < i /\ BucketOf(before[j]) = b}
LastIn(S) == IF S = {} THEN null ELSE CHOOSE j \in S : \A l \in S : l <= j

LEMMA LastInIs ==
  ASSUME NEW n \in Nat, NEW S \in SUBSET (1..n)
  PROVE  IsLast(LastIn(S), S)
<1>1. CASE S = {}
  BY <1>1 DEF IsLast, LastIn
<1>2. CASE S # {}
  <2>1. \E m \in S : \A x \in S : x <= m
    BY <1>2, LastOf
  <2>2. LastIn(S) \in S /\ \A x \in S : x <= LastIn(S)
    BY <1>2, <2>1 DEF LastIn
  <2>3. LastIn(S) # null
    <3>1. PICK m : m = LastIn(S) /\ m \in S
      BY <2>2
    <3>2. m \in Nat
      BY <3>1
    <3> QED
      BY <3>1, <3>2, Longest
  <2> QED
    BY <2>2, <2>3 DEF IsLast
<1> QED
  BY <1>1, <1>2

LEMMA InitValues ==
  ASSUME NEW before
  PROVE  /\ \A s : InitValue(before, Mutex(s)) = 0
         /\ \A b : InitValue(before, Table(b)) = LastIn(Older(before, Len(before) + 1, b))
         /\ \A x : x \notin 1..Len(before) =>
              /\ InitValue(before, KeyOf(x)) = Uninit
              /\ InitValue(before, ValueOf(x)) = Uninit
              /\ InitValue(before, NextOf(x)) = Uninit
         /\ \A x \in 1..Len(before) :
              /\ InitValue(before, KeyOf(x)) = before[x]
              /\ InitValue(before, ValueOf(x)) = 1
              /\ InitValue(before, NextOf(x)) = LastIn(Older(before, x, BucketOf(before[x])))
<1>1. \A s : InitValue(before, Mutex(s)) = 0
  BY DEF InitValue, Mutex
<1>2. \A b : InitValue(before, Table(b)) = LastIn(Older(before, Len(before) + 1, b))
  BY DEF InitValue, Table, LastIn, Older
<1>3. ASSUME NEW x, x \notin 1..Len(before)
      PROVE  /\ InitValue(before, KeyOf(x)) = Uninit
             /\ InitValue(before, ValueOf(x)) = Uninit
             /\ InitValue(before, NextOf(x)) = Uninit
  BY <1>3 DEF InitValue, KeyOf, ValueOf, NextOf
<1>4. ASSUME NEW x \in 1..Len(before)
      PROVE  /\ InitValue(before, KeyOf(x)) = before[x]
             /\ InitValue(before, ValueOf(x)) = 1
             /\ InitValue(before, NextOf(x)) = LastIn(Older(before, x, BucketOf(before[x])))
  BY <1>4 DEF InitValue, KeyOf, ValueOf, NextOf, LastIn, Older
<1> QED
  BY <1>1, <1>2, <1>3, <1>4

(* The memory of the initial state: every location has one message.        *)
LEMMA InitMemory ==
  ASSUME NEW before \in Before, MemInit([x \in Loc |-> InitValue(before, x)])
  PROVE  /\ MemType(Loc, Content) /\ Chain /\ Initials
         /\ \A l \in Loc : Newest(l) = 1 /\ Val(l, 1) = InitValue(before, l)
<1> DEFINE n == Len(before)
           F == [x \in Loc |-> InitValue(before, x)]
<1>1. n \in Nat /\ \A j \in 1..n : before[j] \in Key
  BY HashMapAssumption, LenProperties, ElementOfSeq
<1>2. \A i, b : LastIn(Older(before, i, b)) \in Content
  <2> SUFFICES ASSUME NEW i, NEW b
               PROVE  LastIn(Older(before, i, b)) \in Content
    OBVIOUS
  <2>1. PICK S : S = Older(before, i, b) /\ S \in SUBSET (1..n)
    BY DEF Older
  <2>2. IsLast(LastIn(S), S)
    BY <1>1, <2>1, LastInIs
  <2> QED
    BY <1>1, <2>1, <2>2 DEF IsLast, Content
<1>3. \A x \in 1..n : /\ InitValue(before, KeyOf(x)) \in Content
                      /\ InitValue(before, ValueOf(x)) \in Content
                      /\ InitValue(before, NextOf(x)) \in Content
  <2>1. \A x \in 1..n : before[x] \in Content
    BY <1>1, Ranges
  <2> QED
    BY <1>2, <2>1, InitValues, Ranges
<1>4. \A x : x \notin 1..n => /\ InitValue(before, KeyOf(x)) \in Content
                              /\ InitValue(before, ValueOf(x)) \in Content
                              /\ InitValue(before, NextOf(x)) \in Content
  BY InitValues, Ranges
<1>5. \A b : InitValue(before, Table(b)) \in Content /\ InitValue(before, Mutex(b)) \in Content
  BY <1>2, InitValues, Ranges
<1>6. \A l \in Loc : InitValue(before, l) \in Content
  BY <1>3, <1>4, <1>5 DEF Loc
<1>7. /\ hist = [x \in Loc |-> <<Message(1, F[x], {}, "store")>>]
      /\ cur = [t \in Thread |-> {<<x, 1>> : x \in Loc}]
      /\ acq = [t \in Thread |-> {}] /\ rel = [t \in Thread |-> {}] /\ sc = {}
  BY DEF MemInit
<1>8. ASSUME NEW l \in Loc
      PROVE  /\ hist[l] \in Seq(Messages(Loc, Content)) /\ Len(hist[l]) = 1
             /\ hist[l][1].id = 1 /\ hist[l][1].val = InitValue(before, l)
  <2>1. PICK m : m = Message(1, InitValue(before, l), {}, "store")
    OBVIOUS
  <2>2. m \in Messages(Loc, Content) /\ m.id = 1 /\ m.val = InitValue(before, l)
    BY <1>6, <2>1 DEF Message, Messages
  <2>3. hist[l] = <<m>>
    BY <1>7, <2>1
  <2> QED
    BY <2>2, <2>3
<1>9. MemType(Loc, Content)
  <2>1. {<<x, 1>> : x \in Loc} \subseteq Events(Loc)
    BY DEF Events
  <2>2. hist \in [Loc -> Seq(Messages(Loc, Content))]
    BY <1>7, <1>8
  <2> QED
    BY <1>7, <1>8, <2>1, <2>2 DEF MemType
<1>10. Chain
  BY <1>8 DEF Chain, Linear
<1>11. Initials
  BY <1>7 DEF Initials
<1> QED
  BY <1>8, <1>9, <1>10, <1>11 DEF Newest, Val

(* The lists a driver has made.                                            *)
LEMMA InitLists ==
  ASSUME NEW before \in Before, entries = Len(before), entries \in Nat,
         1..entries \subseteq Entry,
         \A l \in Loc : Newest(l) = 1 /\ Val(l, 1) = InitValue(before, l)
  PROVE  /\ Linked = 1..entries /\ \A x \in Linked : KeyAt(x) = before[x]
         /\ \A b \in Bucket : In(b) = Older(before, entries + 1, b)
         /\ \A x \in Linked : Val(ValueOf(x), 1) = 1 /\ Newest(ValueOf(x)) = 1
         /\ Lists
<1> DEFINE n == entries
<1>1. \A j \in 1..n : before[j] \in Key
  BY HashMapAssumption, ElementOfSeq
<1>2. \A i, b : Older(before, i, b) \in SUBSET (1..n)
  BY DEF Older
<1>3. \A i, b : IsLast(LastIn(Older(before, i, b)), Older(before, i, b))
  BY <1>2, LastInIs
<1>4. \A x \in 1..n : /\ KeyAt(x) = before[x] /\ KeyAt(x) \in Key /\ BucketOf(KeyAt(x)) \in Bucket
                      /\ Val(ValueOf(x), 1) = 1 /\ Newest(ValueOf(x)) = 1
                      /\ Current(NextOf(x)) = LastIn(Older(before, x, BucketOf(KeyAt(x))))
  BY <1>1, InitValues, Locations, KeyType DEF KeyAt, Current
<1>5. \A b \in Bucket : /\ Current(Table(b)) = LastIn(Older(before, n + 1, b)) /\ Newest(Table(b)) = 1
                        /\ Val(Table(b), 1) = Current(Table(b))
  BY InitValues, Locations DEF Current
<1>6. Linked \subseteq 1..n
  <2>1. \A i, b : LastIn(Older(before, i, b)) \in (1..n) \cup {null}
    BY <1>2, <1>3 DEF IsLast
  <2> QED
    BY <1>4, <1>5, <2>1 DEF Linked
<1>7. ASSUME NEW j \in 1..n
      PROVE  j \in Linked
  <2>1. PICK b \in Bucket : b = BucketOf(before[j])
    BY <1>1, KeyType
  <2>2. j # null /\ j # Uninit
    BY Ranges
  <2>3. PICK L : L = {i \in 1..n : j < i /\ BucketOf(before[i]) = b}
    OBVIOUS
  <2>4. CASE L = {}
    <3>1. PICK S, m : S = Older(before, n + 1, b) /\ m = LastIn(S)
      OBVIOUS
    <3>2. j \in S /\ S \in SUBSET (1..n) /\ \A i \in S : ~(j < i)
      BY <2>1, <2>3, <2>4, <3>1 DEF Older
    <3>3. m \in S /\ j <= m
      BY <1>3, <3>1, <3>2 DEF IsLast
    <3>4. m = j
      BY <3>2, <3>3
    <3>5. Current(Table(b)) = j
      BY <1>5, <3>1, <3>4
    <3> QED
      BY <2>2, <3>5 DEF Linked
  <2>5. CASE L # {}
    <3>1. PICK i \in L : \A l \in L : i <= l
      <4>1. L \in SUBSET (1..n)
        BY <2>3
      <4> QED
        BY <2>5, <4>1, FirstOf
    <3>2. i \in 1..n /\ j < i /\ BucketOf(before[i]) = b
      BY <2>3
    <3>3. PICK S, m : S = Older(before, i, b) /\ m = LastIn(S)
      OBVIOUS
    <3>4. j \in S /\ S \in SUBSET (1..n) /\ \A l \in S : l < i /\ BucketOf(before[l]) = b
      BY <2>1, <3>2, <3>3 DEF Older
    <3>5. m \in S /\ j <= m
      BY <1>3, <3>3, <3>4 DEF IsLast
    <3>6. ~(j < m)
      <4>1. j < m => m \in L
        BY <2>3, <3>4, <3>5
      <4> QED
        BY <3>1, <3>2, <3>4, <3>5, <4>1
    <3>7. m = j
      BY <3>4, <3>5, <3>6
    <3>8. Current(NextOf(i)) = j
      BY <1>4, <3>2, <3>3, <3>7
    <3> QED
      BY <2>2, <3>2, <3>8 DEF Linked
  <2> QED
    BY <2>4, <2>5
<1>8. Linked = 1..n
  BY <1>6, <1>7
<1>9. \A b \in Bucket : In(b) = Older(before, n + 1, b)
  <2>1. \A j \in 1..n : j < n + 1
    OBVIOUS
  <2> QED
    BY <1>4, <1>8, <2>1 DEF In, Older
<1>10. Lists
  <2>1. \A x, y \in Linked : KeyAt(x) = KeyAt(y) => x = y
    BY <1>4, <1>8, HashMapAssumption
  <2>2. \A b \in Bucket : IsLast(Current(Table(b)), In(b))
    BY <1>3, <1>5, <1>9
  <2>3. \A b \in Bucket : \A i \in 1..Newest(Table(b)) : Val(Table(b), i) \in In(b) \cup {null}
    BY <1>5, <2>2 DEF IsLast
  <2>4. ASSUME NEW x \in Linked
        PROVE  IsLast(Current(NextOf(x)), {y \in In(BucketOf(KeyAt(x))) : y < x})
    <3>1. PICK b \in Bucket : b = BucketOf(KeyAt(x))
      BY <1>4, <1>8
    <3>2. {y \in In(b) : y < x} = Older(before, x, b)
      BY <1>8, <1>9 DEF Older
    <3> QED
      BY <1>3, <1>4, <1>8, <3>1, <3>2
  <2> QED
    BY <1>4, <1>8, <2>1, <2>2, <2>3, <2>4 DEF Lists
<1> QED
  BY <1>4, <1>8, <1>9, <1>10

LEMMA InitInvariant ==
  ASSUME Init
  PROVE  IInv
<1>1. PICK before \in Before : MemInit([x \in Loc |-> InitValue(before, x)]) /\ entries = Len(before)
  BY DEF Init
<1>2. /\ pc = [t \in Thread |-> "idle"]
      /\ key = [t \in Thread |-> 0] /\ value = [t \in Thread |-> 0]
      /\ e = [t \in Thread |-> null] /\ first = [t \in Thread |-> null]
      /\ old = [t \in Thread |-> 0] /\ puts = 0 /\ gets = 0
  BY DEF Init
<1>3. entries \in Nat /\ entries <= MaxBefore /\ 1..entries \subseteq Entry
  BY <1>1, Longest DEF Entry
<1>4. /\ MemType(Loc, Content) /\ Chain /\ Initials
      /\ \A l \in Loc : Newest(l) = 1 /\ Val(l, 1) = InitValue(before, l)
  BY <1>1, InitMemory
<1>5. /\ Linked = 1..entries /\ Lists
      /\ \A x \in Linked : Val(ValueOf(x), 1) = 1 /\ Newest(ValueOf(x)) = 1
  BY <1>1, <1>3, <1>4, InitLists
<1>6. Locals
  BY <1>2, <1>3, Longest DEF Locals, Label
<1>7. Room
  <2>1. MayMake = {}
    BY <1>2 DEF MayMake
  <2>2. IsFiniteSet(MayMake) /\ Cardinality(MayMake) = 0
    BY <2>1, FS_EmptySet
  <2> QED
    BY <1>2, <1>3, <2>2, Longest DEF Room
<1>8. Values
  <2>1. 1 \in Value /\ 1 # Uninit
    BY Longest DEF Value
  <2> QED
    BY <1>5, <2>1 DEF Values
<1>9. Fresh
  <2> SUFFICES ASSUME NEW x \in Entry, x > entries
               PROVE  Blank(KeyOf(x)) /\ Blank(ValueOf(x)) /\ Blank(NextOf(x))
    BY DEF Fresh
  <2>1. x \notin 1..Len(before)
    BY <1>1, <1>3, Ranges
  <2> QED
    BY <1>4, <2>1, InitValues, Locations DEF Blank
<1>10. \A t \in Thread : ~Holds(t)
  BY <1>2 DEF Holds, PutLabel
<1>11. \A l \in Loc : \A view : Carries(view, l)
  BY <1>4 DEF Carries
<1>12. Passed
  <2>1. \A s : Guarded(s) \subseteq Loc
    BY <1>3, Locations DEF Guarded, Fields
  <2> QED
    BY <1>11, <2>1 DEF Passed
<1>13. Trails
  <2>1. \A y \in Linked : \A view : KnowsEntry(view, y)
    <3>1. 1 # Uninit
      BY Longest
    <3> QED
      BY <1>3, <1>5, <1>11, <3>1, Locations DEF KnowsEntry
  <2> QED
    BY <2>1 DEF Trails, In
<1>14. \A t \in Thread : Well(t)
  BY <1>2 DEF Well, CallWell, WalkWell, SearchWell, MakeWell, WalkLabel, AbsentLabel, MakeLabel, PutLabel
<1> QED
  BY <1>4, <1>5, <1>6, <1>7, <1>8, <1>9, <1>10, <1>12, <1>13, <1>14
     DEF IInv, Types, Mutual, Handover, Held

LEMMA StutterInvariant ==
  ASSUME IInv, UNCHANGED vars
  PROVE  IInv'
<1>1. UNCHANGED <<hist, cur, acq, rel, sc, pc, key, value, e, first, old, entries, puts, gets>>
  BY DEF vars, locals
<1>2. \A l : /\ Newest(l)' = Newest(l) /\ (\A i : Val(l, i)' = Val(l, i))
             /\ Current(l)' = Current(l) /\ (Linear(l)' <=> Linear(l)) /\ (Blank(l)' <=> Blank(l))
  BY <1>1 DEF Newest, Val, Current, Linear, Blank
<1>3. Linked' = Linked /\ (\A x : KeyAt(x)' = KeyAt(x)) /\ \A b : In(b)' = In(b)
  BY <1>1, Same
<1>4. Kept
  BY <1>1, <1>2, <1>3, Bound DEF Kept
<1>5. \A u \in Thread : Still(u) /\ (Holds(u)' <=> Holds(u)) /\ Seg(u)' = Seg(u)
  BY <1>1 DEF Still, Holds, Seg
<1>6. \A s : Guarded(s)' = Guarded(s)
  BY <1>1, <1>3 DEF Guarded
<1>7. Types' /\ Chain' /\ Fresh' /\ Values' /\ Initials'
  BY <1>1, <1>2, <1>3 DEF IInv, Types, MemType, Locals, Chain, Fresh, Values, Made, Handover, Initials
<1>8. Room'
  BY <1>1 DEF IInv, Room, MayMake
<1>9. Mutual'
  BY <1>2, <1>5 DEF IInv, Mutual
<1>10. Held'
  <2> SUFFICES ASSUME NEW u \in Thread, Holds(u)'
               PROVE  Knows(u, Mutex(Seg(u)))' /\ \A l \in Guarded(Seg(u))' : Knows(u, l)'
    BY DEF Held
  <2>1. PICK s : s = Seg(u) /\ s = Seg(u)'
    BY <1>5
  <2>2. Knows(u, Mutex(s)) /\ \A l \in Guarded(s) : Knows(u, l)
    BY <1>5, <2>1 DEF IInv, Handover, Held
  <2>3. Knows(u, Mutex(s))' /\ \A l \in Guarded(s)' : Knows(u, l)'
    BY <1>1, <1>2, <1>6, <2>2 DEF Knows
  <2> QED
    BY <2>1, <2>3
<1>11. Passed'
  BY <1>1, <1>2, <1>6 DEF IInv, Handover, Passed, Carries
<1>12. \A u \in Thread : Well(u)'
  <2>1. \A x : Current(ValueOf(x))' = Current(ValueOf(x))
    BY <1>2
  <2> QED
    BY <1>1, <1>4, <1>5, <2>1, OtherKept
<1> QED
  BY <1>4, <1>7, <1>8, <1>9, <1>10, <1>11, <1>12, ListsKept DEF IInv, Handover

LEMMA StepInvariant ==
  ASSUME IInv, [Next]_vars
  PROVE  IInv'
<1>1. CASE UNCHANGED vars
  BY <1>1, StutterInvariant
<1>2. CASE Terminated
  BY <1>2, StutterInvariant DEF Terminated
<1>3. ASSUME NEW t \in Thread, Put(t)
      PROVE  IInv'
  BY <1>3, PutLockStep, PutLoadFirstStep, PutLoadValueStep, PutStoreValueStep, PutNextEntryStep,
     PutNewEntryStep, PutNewValueStep, PutNewNextStep, PutPublishStep DEF Put
<1>4. ASSUME NEW t \in Thread, Get(t)
      PROVE  IInv'
  BY <1>4, GetLoadFirstStep, GetLoadValueStep, GetNextEntryStep, GetLockStep, GetRecheckStep,
     GetLoadValueAgainStep, GetNextEntryAgainStep DEF Get
<1>5. ASSUME NEW t \in Thread, UnlockAndReturn(t)
      PROVE  IInv'
  BY <1>5, UnlockAndReturnStep
<1> QED
  BY <1>1, <1>2, <1>3, <1>4, <1>5 DEF Next

(* In every reachable state of every program of put() and get() calls the  *)
(* lists of the buckets are well formed, who holds a mutex has seen all it *)
(* guards, and who walks without one has seen the entries it can reach.    *)
THEOREM Invariance == Spec => []IInv
<1>1. Init => IInv
  BY InitInvariant
<1>2. IInv /\ [Next]_vars => IInv'
  BY StepInvariant
<1> QED
  BY <1>1, <1>2, PTL DEF Spec

(* A walk, with or without the mutex, is at an entry whose key, next and   *)
(* first value happen before it, and no key has two entries: the type      *)
(* invariant of the run.                                                   *)
THEOREM TypeCorrectness == Spec => []TypeOK
<1>1. ASSUME IInv
      PROVE  TypeOK
  <2>1. entries \in Entry \cup {0}
    <3>1. entries \in Nat /\ 1..entries \subseteq Entry
      BY <1>1, Bound
    <3>2. entries = 0 \/ entries \in 1..entries
      BY <3>1
    <3> QED
      BY <3>1, <3>2
  <2>2. \A x, y \in Linked : KeyAt(x) = KeyAt(y) => x = y
    BY <1>1 DEF IInv, Lists
  <2>3. ASSUME NEW t \in Thread
        PROVE  e[t] \in Entry \cup {null} /\ first[t] \in Entry \cup {null}
    BY <1>1 DEF IInv, Types, Locals
  <2>4. ASSUME NEW t \in Thread, pc[t] \in WalkLabel
        PROVE  /\ e[t] \in Entry /\ KeyAt(e[t]) \in Key
               /\ Synchronized(t, KeyOf(e[t])) /\ Synchronized(t, NextOf(e[t]))
               /\ Uninit \notin {Val(ValueOf(e[t]), i) : i \in Readable(t, ValueOf(e[t]), relaxed)}
    <3>1. PICK x : x = e[t] /\ x \in In(Home(t)) /\ \A y \in In(Home(t)) : y <= x => KnowsEntry(cur[t], y)
      BY <1>1, <2>4 DEF IInv, Well, WalkWell
    <3>2. x \in Linked /\ x \in Entry /\ x \in Nat /\ KeyAt(x) \in Key
      BY <1>1, <3>1, Bound, Ranges DEF In, IInv, Lists
    <3>3. x <= x
      BY <3>2
    <3>4. KnowsEntry(cur[t], x)
      BY <3>1, <3>3
    <3>5. KeyOf(x) \in Loc /\ NextOf(x) \in Loc /\ ValueOf(x) \in Loc
      BY <3>2, Locations
    <3>6. ASSUME NEW l \in Loc, Carries(cur[t], l)
          PROVE  Synchronized(t, l)
      <4>1. <<l, 1>> \in cur[t] /\ Newest(l) \in Nat
        BY <1>1, Lengths DEF IInv, Handover, Initials
      <4>2. Knows(t, l)
        BY <3>6, <4>1 DEF Knows, Carries
      <4> QED
        BY <1>1, <4>2, Known
    <3>7. Synchronized(t, KeyOf(x)) /\ Synchronized(t, NextOf(x))
      BY <3>4, <3>5, <3>6 DEF KnowsEntry
    <3>8. ASSUME NEW i \in Readable(t, ValueOf(x), relaxed)
          PROVE  Val(ValueOf(x), i) # Uninit
      <4> DEFINE l == ValueOf(x)
      <4>1. i \in 1..Newest(l) /\ Newest(l) \in Nat
        BY <1>1, <3>5, Lengths DEF Readable
      <4>2. \A j \in (i + 1)..Newest(l) : <<l, j>> \notin cur[t]
        BY <1>1, <3>5, <4>1 DEF Readable, Seen, relaxed, seq_cst, IInv, Chain, Linear, Event, Newest
      <4>3. i = 1 /\ Val(l, 1) = Uninit => <<l, 2>> \in cur[t] /\ 2 \in (i + 1)..Newest(l)
        BY <1>1, <3>2, <3>4, <4>1 DEF KnowsEntry, IInv, Values
      <4>4. Val(l, i) \in Value \/ (i = 1 /\ Val(l, 1) = Uninit)
        BY <1>1, <3>2, <4>1 DEF IInv, Values
      <4> QED
        BY <4>2, <4>3, <4>4, Ranges
    <3> QED
      BY <3>1, <3>2, <3>7, <3>8
  <2> QED
    BY <2>1, <2>2, <2>3, <2>4 DEF TypeOK, WalkLabel
<1> QED
  BY <1>1, Invariance, PTL

-----------------------------------------------------------------------------
(* What the lists say of a key.                                            *)
MapWell ==
  /\ Mapping \in [Key -> Value \cup {0}]
  /\ \A x \in Linked : KeyAt(x) \in Key /\ Mapping[KeyAt(x)] = Current(ValueOf(x))
  /\ \A k \in Key : (\A x \in Linked : KeyAt(x) # k) => Mapping[k] = 0

LEMMA MappingWell == IInv => MapWell
<1> SUFFICES ASSUME IInv
             PROVE  MapWell
  OBVIOUS
<1>1. /\ \A x \in Linked : KeyAt(x) \in Key
      /\ \A x, y \in Linked : KeyAt(x) = KeyAt(y) => x = y
  BY DEF IInv, Lists
<1>2. ASSUME NEW x \in Linked
      PROVE  Current(ValueOf(x)) \in Value
  <2>1. ValueOf(x) \in Loc
    BY Bound, Locations
  <2>2. Newest(ValueOf(x)) \in Nat /\ Newest(ValueOf(x)) >= 1
    BY <2>1, Lengths
  <2> QED
    BY <2>2 DEF IInv, Values, Current
<1>3. \A k \in Key, y \in Linked :
        KeyAt(y) = k => Mapping[k] = Current(ValueOf(y))
  <2> SUFFICES ASSUME NEW k \in Key, NEW y \in Linked, KeyAt(y) = k
               PROVE  Mapping[k] = Current(ValueOf(y))
    OBVIOUS
  <2>1. PICK S : S = {x \in Linked : KeyAt(x) = k}
    OBVIOUS
  <2>2. S = {y}
    BY <1>1, <2>1
  <2>3. Mapping[k] = IF S = {} THEN 0 ELSE Current(ValueOf(CHOOSE x \in S : TRUE))
    BY <2>1 DEF Mapping
  <2>4. (CHOOSE x \in S : TRUE) = y
    BY <2>2
  <2> QED
    BY <2>2, <2>3, <2>4
<1>4. \A k \in Key : (\A x \in Linked : KeyAt(x) # k) => Mapping[k] = 0
  <2> SUFFICES ASSUME NEW k \in Key, \A x \in Linked : KeyAt(x) # k
               PROVE  Mapping[k] = 0
    OBVIOUS
  <2>1. {x \in Linked : KeyAt(x) = k} = {}
    OBVIOUS
  <2> QED
    BY <2>1 DEF Mapping
<1>5. \A k \in Key : Mapping[k] \in Value \cup {0}
  BY <1>2, <1>3, <1>4
<1>6. Mapping = [k \in Key |-> Mapping[k]]
  BY DEF Mapping
<1> QED
  BY <1>1, <1>3, <1>4, <1>5, <1>6 DEF MapWell

LEMMA MappingWellThen == IInv' => MapWell'
BY MappingWell, PTL

(* A step that leaves the lists and the values alone leaves the map alone. *)
LEMMA MappingKept ==
  ASSUME IInv, IInv', Kept, \A x \in Linked : Current(ValueOf(x))' = Current(ValueOf(x))
  PROVE  Mapping' = Mapping
<1>1. MapWell /\ MapWell'
  BY MappingWell, MappingWellThen
<1>2. Linked' = Linked /\ \A x \in Linked : KeyAt(x)' = KeyAt(x)
  BY ListsKept DEF Kept
<1>3. PICK M : M = Mapping'
  OBVIOUS
<1>4. /\ M \in [Key -> Value \cup {0}]
      /\ \A x \in Linked : M[KeyAt(x)] = Current(ValueOf(x))
      /\ \A k \in Key : (\A x \in Linked : KeyAt(x) # k) => M[k] = 0
  BY <1>1, <1>2, <1>3 DEF MapWell
<1>5. ASSUME NEW k \in Key
      PROVE  M[k] = Mapping[k]
  BY <1>1, <1>4 DEF MapWell
<1>6. Mapping \in [Key -> Value \cup {0}]
  BY <1>1 DEF MapWell
<1> QED
  BY <1>3, <1>4, <1>5, <1>6

(* One that changes the value of one key, or gives it an entry, puts it.   *)
LEMMA MappingPut ==
  ASSUME IInv, IInv', NEW x, NEW k \in Key, NEW v, Linked' = Linked \cup {x},
         KeyAt(x)' = k, Current(ValueOf(x))' = v, \A y \in Linked : KeyAt(y)' = KeyAt(y),
         \A y \in Linked \ {x} : Current(ValueOf(y))' = Current(ValueOf(y))
  PROVE  Mapping' = [Mapping EXCEPT ![k] = v]
<1>1. MapWell /\ MapWell'
  BY MappingWell, MappingWellThen
<1>2. PICK M : M = Mapping'
  OBVIOUS
<1>3. /\ M \in [Key -> Value \cup {0}]
      /\ M[k] = v
      /\ \A y \in Linked \ {x} : M[KeyAt(y)] = Current(ValueOf(y))
      /\ \A l \in Key : (\A y \in Linked : KeyAt(y) # l) /\ l # k => M[l] = 0
  BY <1>1, <1>2 DEF MapWell
<1>4. ASSUME NEW l \in Key, l # k
      PROVE  M[l] = Mapping[l]
  <2>1. CASE \E y \in Linked : KeyAt(y) = l
    <3>1. PICK y \in Linked : KeyAt(y) = l
      BY <2>1
    <3>2. x \in Linked => KeyAt(x) = k
      OBVIOUS
    <3> QED
      BY <1>1, <1>3, <1>4, <3>1, <3>2 DEF MapWell
  <2>2. CASE \A y \in Linked : KeyAt(y) # l
    BY <1>1, <1>3, <1>4, <2>2 DEF MapWell
  <2> QED
    BY <2>1, <2>2
<1>5. Mapping \in [Key -> Value \cup {0}]
  BY <1>1 DEF MapWell
<1> QED
  BY <1>2, <1>3, <1>4, <1>5

LEMMA MappingSame ==
  ASSUME hist' = hist, entries' = entries
  PROVE  Mapping' = Mapping
<1>1. Linked' = Linked /\ (\A x : KeyAt(x)' = KeyAt(x)) /\ \A l : Current(l)' = Current(l)
  BY Same
<1>2. ASSUME NEW k \in Key
      PROVE  {x \in Linked : KeyAt(x) = k}' = {x \in Linked : KeyAt(x) = k}
  BY <1>1
<1>3. ASSUME NEW k \in Key
      PROVE  Mapping'[k] = Mapping[k]
  <2>1. PICK S : S = {x \in Linked : KeyAt(x) = k}
    OBVIOUS
  <2>2. S = {x \in Linked : KeyAt(x) = k}'
    BY <1>2, <2>1
  <2>3. Mapping[k] = IF S = {} THEN 0 ELSE Current(ValueOf(CHOOSE x \in S : TRUE))
    BY <2>1 DEF Mapping
  <2>4. Mapping'[k] = IF S = {} THEN 0 ELSE Current(ValueOf(CHOOSE x \in S : TRUE))'
    BY <2>2 DEF Mapping
  <2> QED
    BY <1>1, <2>3, <2>4
<1> QED
  BY <1>3 DEF Mapping

(* What a step of a thread does to the map and to the answers.             *)
Silent == UNCHANGED <<Mapping, answer>>

LEMMA PutMaps ==
  ASSUME IInv, IInv', NEW t \in Thread, Put(t)
  PROVE  Silent \/ \E k \in Key : Abstract!Put(k)
<1>1. CASE Put_Lock(t)
  BY <1>1, PutLockStep, MappingKept DEF Silent, Put_Lock
<1>2. CASE Put_LoadFirst(t)
  BY <1>2, MappingSame DEF Silent, Put_LoadFirst, Load
<1>3. CASE Put_LoadValue(t)
  BY <1>3, MappingSame DEF Silent, Put_LoadValue, Load
<1>4. CASE Put_StoreValue(t)
  <2>1. PICK x, k, v : x = e[t] /\ k = key[t] /\ v = value[t]
    OBVIOUS
  <2>2. /\ Kept /\ x \in Linked /\ KeyAt(x) = k /\ old[t] = Current(ValueOf(x))
        /\ Current(ValueOf(x))' = v
        /\ \A y \in Linked \ {x} : Current(ValueOf(y))' = Current(ValueOf(y))
    <3>1. x = e'[t]
      BY <1>4, <2>1 DEF Put_StoreValue, locals
    <3>2. Current(ValueOf(x))' = Current(ValueOf(e[t]))'
      BY <3>1 DEF Current, Newest, Val
    <3> QED
      BY <1>4, <2>1, <3>2, PutStoreValueStep
  <2>3. k \in Key /\ v \in Value
    BY <1>4, <2>1 DEF IInv, Well, CallWell, Put_StoreValue, Goto, PutLabel
  <2>4. Linked' = Linked \cup {x} /\ \A y \in Linked : KeyAt(y)' = KeyAt(y)
    BY <2>2, ListsKept DEF Kept
  <2>5. KeyAt(x)' = k
    BY <2>2, <2>4
  <2>6. Mapping' = [Mapping EXCEPT ![k] = v]
    BY <2>2, <2>3, <2>4, <2>5, MappingPut
  <2>7. old[t] = Mapping[k]
    BY <2>2, MappingWell DEF MapWell
  <2>8. answer' = [op |-> "put", key |-> k, value |-> Mapping[k]]
    BY <1>4, <2>1, <2>7 DEF Put_StoreValue, Answer
  <2> QED
    BY <2>3, <2>6, <2>8 DEF Abstract!Put, Abstract!Answer
<1>5. CASE Put_NextEntry(t)
  BY <1>5, MappingSame DEF Silent, Put_NextEntry, Advance, Load
<1>6. CASE Put_NewEntry(t)
  BY <1>6, PutNewEntryStep, MappingKept DEF Silent, Put_NewEntry
<1>7. CASE Put_NewValue(t)
  BY <1>7, PutNewValueStep, MappingKept DEF Silent, Put_NewValue
<1>8. CASE Put_NewNext(t)
  BY <1>8, PutNewNextStep, MappingKept DEF Silent, Put_NewNext
<1>9. CASE Put_Publish(t)
  <2>1. PICK x, b, k, v : x = e[t] /\ b = Home(t) /\ k = key[t] /\ v = value[t]
    OBVIOUS
  <2>2. /\ x \in Entry /\ KeyAt(x) = k /\ k \in Key /\ v \in Value /\ x \notin Linked
        /\ \A y \in In(b) : KeyAt(y) # k
        /\ Newest(ValueOf(x)) = 2 /\ Val(ValueOf(x), 2) = v
    BY <1>9, <2>1, Published
  <2>3. /\ \A y \in Entry : KeyAt(y)' = KeyAt(y) /\ Current(ValueOf(y))' = Current(ValueOf(y))
        /\ Linked' = Linked \cup {x}
    BY <1>9, <2>1, PublishedRest
  <2>4. Linked \subseteq Entry
    BY Bound
  <2>5. KeyAt(x)' = k /\ Current(ValueOf(x))' = v
    BY <2>2, <2>3 DEF Current
  <2>6. Mapping' = [Mapping EXCEPT ![k] = v]
    BY <2>2, <2>3, <2>4, <2>5, MappingPut
  <2>7. Mapping[k] = 0
    <3>1. \A y \in Linked : KeyAt(y) # k
      BY <2>1, <2>2 DEF In, Home
    <3> QED
      BY <2>2, <3>1, MappingWell DEF MapWell
  <2>8. answer' = [op |-> "put", key |-> k, value |-> Mapping[k]]
    BY <1>9, <2>1, <2>7 DEF Put_Publish, Answer
  <2> QED
    BY <2>2, <2>6, <2>8 DEF Abstract!Put, Abstract!Answer
<1> QED
  BY <1>1, <1>2, <1>3, <1>4, <1>5, <1>6, <1>7, <1>8, <1>9 DEF Put

(* The key of a get() that finds nothing has no entry.                     *)
LEMMA Absent ==
  ASSUME IInv, NEW t \in Thread, key[t] \in Key, \A y \in In(Home(t)) : KeyAt(y) # key[t]
  PROVE  Mapping[key[t]] = 0
<1>1. \A y \in Linked : KeyAt(y) # key[t]
  BY DEF In, Home
<1> QED
  BY <1>1, MappingWell DEF MapWell

LEMMA Present ==
  ASSUME IInv, NEW t \in Thread, e[t] \in Linked, KeyAt(e[t]) = key[t]
  PROVE  Mapping[key[t]] = Current(ValueOf(e[t]))
BY MappingWell DEF MapWell

LEMMA GetMaps ==
  ASSUME IInv, IInv', NEW t \in Thread, Get(t)
  PROVE  Silent \/ \E k \in Key : Abstract!Get(k)
<1>1. ASSUME Mapping' = Mapping, key[t] \in Key, NEW v, Answer("get", t, v), v = Mapping[key[t]]
      PROVE  \E k \in Key : Abstract!Get(k)
  BY <1>1 DEF Answer, Abstract!Get, Abstract!Answer
<1>2. CASE Get_LoadFirst(t)
  BY <1>2, MappingSame DEF Silent, Get_LoadFirst, Load
<1>3. CASE Get_LoadValue(t)
  <2>1. PICK v : v = Current(ValueOf(e[t]))
    OBVIOUS
  <2>2. /\ hist' = hist /\ entries' = entries /\ key[t] \in Key
        /\ Answer("get", t, v) /\ v = Mapping[key[t]]
    BY <1>3, <2>1, GetLoadValueStep, Present
  <2> QED
    BY <1>1, <2>2, MappingSame
<1>4. CASE Get_NextEntry(t)
  BY <1>4, MappingSame DEF Silent, Get_NextEntry, Advance, Load
<1>5. CASE Get_Lock(t)
  BY <1>5, GetLockStep, MappingKept DEF Silent, Get_Lock
<1>6. CASE Get_Recheck(t)
  <2>1. /\ hist' = hist /\ entries' = entries /\ key[t] \in Key
        /\ pc'[t] = "unlock" => \A y \in In(Home(t)) : KeyAt(y) # key[t]
    BY <1>6, GetRecheckStep
  <2>2. CASE pc'[t] = "unlock"
    <3>1. Answer("get", t, 0) /\ Mapping[key[t]] = 0
      BY <1>6, <2>1, <2>2, Absent DEF Get_Recheck
    <3> QED
      BY <1>1, <2>1, <3>1, MappingSame
  <2>3. CASE pc'[t] # "unlock"
    BY <1>6, <2>1, <2>3, MappingSame DEF Silent, Get_Recheck
  <2> QED
    BY <2>2, <2>3
<1>7. CASE Get_LoadValueAgain(t)
  <2>1. PICK v : v = Current(ValueOf(e[t]))
    OBVIOUS
  <2>2. /\ hist' = hist /\ entries' = entries /\ key[t] \in Key
        /\ Answer("get", t, v) /\ v = Mapping[key[t]]
    BY <1>7, <2>1, GetLoadValueAgainStep, Present
  <2> QED
    BY <1>1, <2>2, MappingSame
<1>8. CASE Get_NextEntryAgain(t)
  <2>1. /\ hist' = hist /\ entries' = entries /\ key[t] \in Key
        /\ e'[t] = null => \A y \in In(Home(t)) : KeyAt(y) # key[t]
    BY <1>8, GetNextEntryAgainStep
  <2>2. CASE e'[t] = null
    <3>1. Answer("get", t, 0) /\ Mapping[key[t]] = 0
      BY <1>8, <2>1, <2>2, Absent DEF Get_NextEntryAgain
    <3> QED
      BY <1>1, <2>1, <3>1, MappingSame
  <2>3. CASE e'[t] # null
    BY <1>8, <2>1, <2>3, MappingSame DEF Silent, Get_NextEntryAgain
  <2> QED
    BY <2>2, <2>3
<1> QED
  BY <1>2, <1>3, <1>4, <1>5, <1>6, <1>7, <1>8 DEF Get

LEMMA Steps ==
  ASSUME IInv, [Next]_vars
  PROVE  [Abstract!Next]_<<Mapping, answer>>
<1>1. IInv'
  BY StepInvariant
<1>2. CASE UNCHANGED vars
  BY <1>2, MappingSame DEF vars
<1>3. CASE Terminated
  BY <1>3, MappingSame DEF Terminated, vars
<1>4. ASSUME NEW t \in Thread, Put(t)
      PROVE  Silent \/ \E k \in Key : Abstract!Put(k)
  BY <1>1, <1>4, PutMaps
<1>5. ASSUME NEW t \in Thread, Get(t)
      PROVE  Silent \/ \E k \in Key : Abstract!Get(k)
  BY <1>1, <1>5, GetMaps
<1>6. ASSUME NEW t \in Thread, UnlockAndReturn(t)
      PROVE  Silent
  BY <1>1, <1>6, UnlockAndReturnStep, MappingKept DEF Silent, UnlockAndReturn
<1> QED
  BY <1>2, <1>3, <1>4, <1>5, <1>6 DEF Next, Silent, Abstract!Next

(* put() and get() of every program of calls take effect at once, in one   *)
(* order over all the keys: a get() that finds its key without the mutex   *)
(* returns the value of the last put(), one that does not find it under    *)
(* the mutex is right, and every put() returns the value it replaces.      *)
THEOREM Refinement == Spec => ImplementsMap
<1>1. Init => Abstract!Init
  BY InitInvariant, MappingWell DEF Init, MapWell, Abstract!Init
<1>2. IInv /\ [Next]_vars => [Abstract!Next]_<<Mapping, answer>>
  BY Steps
<1> QED
  BY <1>1, <1>2, Invariance, PTL DEF Spec, ImplementsMap, Abstract!Spec
=============================================================================
