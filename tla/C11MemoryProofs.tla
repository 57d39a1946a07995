--------------------------- MODULE C11MemoryProofs ---------------------------
(***************************************************************************)
(* Lemmas about the memory that do not depend on the program: its type,    *)
(* and what a write does when it can only go to the end of the             *)
(* modification order, which is the case whenever a program orders all     *)
(* its writes to the location.                                             *)
(***************************************************************************)
EXTENDS C11Memory, SequenceTheorems, TLAPS

Events(L) == L \X Nat
Messages(L, V) == [id : Nat, val : V, view : SUBSET Events(L), kind : {"store", "rmw"}]

(* The type of a memory with locations L and values V.                     *)
MemType(L, V) ==
  /\ hist \in [L -> Seq(Messages(L, V))]
  /\ \A x \in L : Len(hist[x]) >= 1
  /\ cur \in [Thread -> SUBSET Events(L)]
  /\ acq \in [Thread -> SUBSET Events(L)]
  /\ rel \in [Thread -> SUBSET Events(L)]
  /\ sc \in SUBSET Events(L)

(* The modification order of x is the order in which the writes executed.  *)
Linear(x) == \A k \in 1..Len(hist[x]) : hist[x][k].id = k

(* The step adds a message to the end of the history of x, nothing else.   *)
Appended(L, x) ==
  /\ Len(hist'[x]) = Len(hist[x]) + 1
  /\ \A k \in 1..Len(hist[x]) : hist'[x][k] = hist[x][k]
  /\ \A y \in L \ {x} : hist'[y] = hist[y]

-----------------------------------------------------------------------------
(* Inserting behind the last element appends.                              *)
LEMMA InsertAtEnd ==
  ASSUME NEW S, NEW s \in Seq(S), NEW e \in S
  PROVE  InsertAt(s, Len(s) + 1, e) = Append(s, e)
<1>1. SubSeq(s, 1, Len(s)) = s
  BY SubSeqFull
<1>2. SubSeq(s, Len(s) + 1, Len(s)) = << >>
  BY SubSeqEmpty, LenProperties
<1>3. s \o <<e>> \in Seq(S)
  BY ConcatProperties
<1>4. (s \o <<e>>) \o << >> = s \o <<e>>
  BY <1>3, ConcatEmptySeq
<1>5. (Len(s) + 1) - 1 = Len(s)
  BY LenProperties
<1> QED
  BY <1>1, <1>2, <1>4, <1>5, AppendIsConcat DEF InsertAt

(* Inserting anywhere keeps the elements in their set.                     *)
LEMMA InsertAtType ==
  ASSUME NEW S, NEW s \in Seq(S), NEW e \in S, NEW i \in 1..Len(s)
  PROVE  /\ InsertAt(s, i + 1, e) \in Seq(S)
         /\ Len(InsertAt(s, i + 1, e)) = Len(s) + 1
<1>1. SubSeq(s, 1, i) \in Seq(S) /\ Len(SubSeq(s, 1, i)) = i
  BY SubSeqProperties, LenProperties
<1>2. SubSeq(s, i + 1, Len(s)) \in Seq(S) /\ Len(SubSeq(s, i + 1, Len(s))) = Len(s) - i
  BY SubSeqProperties, LenProperties
<1>3. <<e>> \in Seq(S) /\ Len(<<e>>) = 1
  OBVIOUS
<1>4. (i + 1) - 1 = i
  OBVIOUS
<1>5. SubSeq(s, 1, i) \o <<e>> \in Seq(S) /\ Len(SubSeq(s, 1, i) \o <<e>>) = i + 1
  BY <1>1, <1>3, ConcatProperties
<1>6. InsertAt(s, i + 1, e) = (SubSeq(s, 1, i) \o <<e>>) \o SubSeq(s, i + 1, Len(s))
  BY <1>4 DEF InsertAt
<1>7. (i + 1) + (Len(s) - i) = Len(s) + 1
  BY LenProperties
<1> DEFINE a == SubSeq(s, 1, i) \o <<e>>
           b == SubSeq(s, i + 1, Len(s))
<1>8. a \in Seq(S) /\ b \in Seq(S) /\ Len(a) + Len(b) = Len(s) + 1 /\ InsertAt(s, i + 1, e) = a \o b
  BY <1>2, <1>5, <1>6, <1>7
<1> HIDE DEF a, b
<1> QED
  BY <1>8, ConcatProperties

(* A thread has a choice of at most the positions of the history.          *)
LEMMA ExtendableRange ==
  ASSUME NEW t, NEW x, NEW ord
  PROVE  Extendable(t, x, ord) \subseteq 1..Newest(x)
BY DEF Extendable, Readable

(* Observing extends a view within the events of the program.              *)
LEMMA ObserveType ==
  ASSUME NEW L, NEW V, MemType(L, V), NEW t \in Thread, NEW x \in L, NEW ord,
         NEW i \in 1..Newest(x)
  PROVE  /\ Upto(x, i) \subseteq Events(L)
         /\ Observe(t, x, i, ord) \subseteq Events(L)
         /\ Pending(t, x, i, ord) \subseteq Events(L)
         /\ NextEvent(x) \in Events(L)
<1>1. hist[x] \in Seq(Messages(L, V)) /\ Len(hist[x]) \in Nat
  BY LenProperties DEF MemType
<1>2. \A j \in 1..Len(hist[x]) : hist[x][j] \in Messages(L, V)
  BY <1>1, ElementOfSeq
<1>3. Upto(x, i) \subseteq Events(L)
  <2>1. \A j \in 1..i : j \in 1..Len(hist[x])
    BY <1>1 DEF Newest
  <2>2. \A j \in 1..i : hist[x][j].id \in Nat
    BY <1>2, <2>1 DEF Messages
  <2> QED
    BY <2>2 DEF Upto, Event, Events
<1>4. hist[x][i].view \subseteq Events(L)
  BY <1>2 DEF Newest, Messages
<1>5. cur[t] \subseteq Events(L) /\ acq[t] \subseteq Events(L)
  BY DEF MemType
<1> QED
  BY <1>1, <1>3, <1>4, <1>5 DEF Observe, Pending, NextEvent, Newest, Events

(* A load keeps the type of the memory.                                    *)
LEMMA LoadType ==
  ASSUME NEW L, NEW V, MemType(L, V), NEW t \in Thread, NEW x \in L, NEW i, NEW ord,
         Load(t, x, i, ord)
  PROVE  MemType(L, V)' /\ i \in 1..Newest(x)
<1>1. i \in 1..Newest(x)
  BY DEF Load, Readable
<1>2. Observe(t, x, i, ord) \subseteq Events(L) /\ Pending(t, x, i, ord) \subseteq Events(L)
  BY <1>1, ObserveType
<1> QED
  BY <1>1, <1>2 DEF MemType, Load

(* A message added to a location leaves a well-formed history.             *)
LEMMA PlaceType ==
  ASSUME NEW L, NEW V, MemType(L, V), NEW x \in L, NEW i \in 1..Newest(x), NEW v \in V,
         NEW view \in SUBSET Events(L), NEW kind \in {"store", "rmw"}, Place(x, i, v, view, kind)
  PROVE  /\ hist' \in [L -> Seq(Messages(L, V))]
         /\ \A y \in L : Len(hist'[y]) >= 1
         /\ \A y \in L \ {x} : hist'[y] = hist[y]
         /\ Len(hist'[x]) = Len(hist[x]) + 1
<1> DEFINE m == Message(Len(hist[x]) + 1, v, view, kind)
<1>1. hist[x] \in Seq(Messages(L, V)) /\ Len(hist[x]) \in Nat
  BY LenProperties DEF MemType
<1>2. m \in Messages(L, V)
  BY <1>1 DEF Message, Messages
<1>3. hist' = [hist EXCEPT ![x] = InsertAt(hist[x], i + 1, m)]
  BY DEF Place, MemType
<1> HIDE DEF m
<1>4. /\ InsertAt(hist[x], i + 1, m) \in Seq(Messages(L, V))
      /\ Len(InsertAt(hist[x], i + 1, m)) = Len(hist[x]) + 1
  BY <1>1, <1>2, InsertAtType DEF Newest
<1> QED
  BY <1>1, <1>3, <1>4 DEF MemType

(* A store keeps the type of the memory.                                   *)
LEMMA StoreType ==
  ASSUME NEW L, NEW V, MemType(L, V), NEW t \in Thread, NEW x \in L, NEW v \in V, NEW ord,
         Store(t, x, v, ord)
  PROVE  MemType(L, V)'
<1>1. PICK i \in Extendable(t, x, ord) :
        /\ Place(x, i, v, Released(t, ord), "store")
        /\ cur' = [cur EXCEPT ![t] = @ \cup Upto(x, i) \cup {NextEvent(x)}]
        /\ JoinSC(x, ord)
        /\ UNCHANGED <<acq, rel>>
  BY DEF Store
<1>2. i \in 1..Newest(x)
  BY ExtendableRange
<1>3. Released(t, ord) \in SUBSET Events(L)
  BY DEF MemType, Released
<1>4. /\ hist' \in [L -> Seq(Messages(L, V))]
      /\ \A y \in L : Len(hist'[y]) >= 1
  BY <1>1, <1>2, <1>3, PlaceType
<1>5. Upto(x, i) \subseteq Events(L) /\ NextEvent(x) \in Events(L)
  BY <1>2, ObserveType
<1>6. cur' \in [Thread -> SUBSET Events(L)]
  BY <1>1, <1>5 DEF MemType
<1>7. sc' \in SUBSET Events(L)
  BY <1>1, <1>5 DEF MemType, JoinSC
<1> QED
  BY <1>1, <1>4, <1>6, <1>7 DEF MemType

(* A read-modify-write keeps the type of the memory.                       *)
LEMMA ReadModifyWriteType ==
  ASSUME NEW L, NEW V, MemType(L, V), NEW t \in Thread, NEW x \in L, NEW i, NEW v \in V,
         NEW ord, ReadModifyWrite(t, x, i, v, ord)
  PROVE  MemType(L, V)'
<1>1. i \in 1..Newest(x)
  BY ExtendableRange DEF ReadModifyWrite
<1>2. /\ Observe(t, x, i, ord) \subseteq Events(L)
      /\ Pending(t, x, i, ord) \subseteq Events(L)
      /\ NextEvent(x) \in Events(L)
  BY <1>1, ObserveType
<1>3. hist[x][i].view \subseteq Events(L)
  <2>1. hist[x][i] \in Messages(L, V)
    BY <1>1, ElementOfSeq DEF MemType, Newest
  <2> QED
    BY <2>1 DEF Messages
<1>4. Continued(t, x, i, ord) \in SUBSET Events(L)
  BY <1>2, <1>3 DEF MemType, Continued
<1>5. /\ hist' \in [L -> Seq(Messages(L, V))]
      /\ \A y \in L : Len(hist'[y]) >= 1
  BY <1>1, <1>4, PlaceType DEF ReadModifyWrite
<1>6. /\ cur' \in [Thread -> SUBSET Events(L)]
      /\ acq' \in [Thread -> SUBSET Events(L)]
  BY <1>2 DEF MemType, ReadModifyWrite
<1>7. sc' \in SUBSET Events(L)
  BY <1>2 DEF MemType, ReadModifyWrite, JoinSC
<1> QED
  BY <1>5, <1>6, <1>7 DEF MemType, ReadModifyWrite

-----------------------------------------------------------------------------
(* A thread that has seen the newest message of x reads it and writes      *)
(* behind it.                                                              *)
LEMMA NewestSeen ==
  ASSUME NEW L, NEW V, MemType(L, V), NEW t \in Thread, NEW x \in L, NEW ord,
         Event(x, Newest(x)) \in cur[t]
  PROVE  /\ Readable(t, x, ord) \subseteq {Newest(x)}
         /\ Extendable(t, x, ord) \subseteq {Newest(x)}
<1>1. Newest(x) \in Nat /\ Newest(x) >= 1
  BY LenProperties DEF MemType, Newest
<1>2. Event(x, Newest(x)) \in Seen(t, ord)
  BY DEF Seen
<1>3. ASSUME NEW i \in 1..Newest(x), i # Newest(x)
      PROVE  Newest(x) \in (i + 1)..Newest(x)
  BY <1>1, <1>3
<1> QED
  BY <1>2, <1>3 DEF Readable, Extendable

(* Placing a message behind the newest one appends it.                     *)
LEMMA PlaceAtEnd ==
  ASSUME NEW L, NEW V, MemType(L, V), NEW x \in L, NEW v \in V,
         NEW view \in SUBSET Events(L), NEW kind \in {"store", "rmw"},
         Place(x, Newest(x), v, view, kind)
  PROVE  /\ Appended(L, x)
         /\ hist'[x][Newest(x) + 1] = Message(Newest(x) + 1, v, view, kind)
<1> DEFINE m == Message(Newest(x) + 1, v, view, kind)
<1>1. hist[x] \in Seq(Messages(L, V)) /\ Newest(x) \in Nat
  BY LenProperties DEF MemType, Newest
<1>2. m \in Messages(L, V)
  BY <1>1 DEF Message, Messages
<1>3. hist' = [hist EXCEPT ![x] = InsertAt(hist[x], Newest(x) + 1, m)]
  BY DEF Place, MemType, Newest
<1> HIDE DEF m
<1>4. InsertAt(hist[x], Newest(x) + 1, m) = Append(hist[x], m)
  BY <1>1, <1>2, InsertAtEnd DEF Newest
<1>5. /\ hist'[x] = Append(hist[x], m)
      /\ \A y \in L \ {x} : hist'[y] = hist[y]
  BY <1>3, <1>4 DEF MemType
<1> QED
  BY <1>1, <1>2, <1>5, AppendProperties DEF Appended, m, Newest

(* A thread that has seen the newest message stores behind it.             *)
LEMMA StoreAtEnd ==
  ASSUME NEW L, NEW V, MemType(L, V), NEW t \in Thread, NEW x \in L, NEW v \in V, NEW ord,
         Event(x, Newest(x)) \in cur[t], Store(t, x, v, ord)
  PROVE  /\ Appended(L, x)
         /\ hist'[x][Newest(x) + 1].id = Newest(x) + 1
         /\ hist'[x][Newest(x) + 1].val = v
         /\ hist'[x][Newest(x) + 1].view = Released(t, ord)
         /\ hist'[x][Newest(x) + 1].kind = "store"
         /\ cur'[t] = cur[t] \cup Upto(x, Newest(x)) \cup {NextEvent(x)}
         /\ \A u \in Thread \ {t} : cur'[u] = cur[u]
<1>1. /\ Place(x, Newest(x), v, Released(t, ord), "store")
      /\ cur' = [cur EXCEPT ![t] = @ \cup Upto(x, Newest(x)) \cup {NextEvent(x)}]
  <2>1. Extendable(t, x, ord) \subseteq {Newest(x)}
    BY NewestSeen
  <2> QED
    BY <2>1 DEF Store
<1>2. Released(t, ord) \in SUBSET Events(L)
  BY DEF MemType, Released
<1>3. /\ Appended(L, x)
      /\ hist'[x][Newest(x) + 1] = Message(Newest(x) + 1, v, Released(t, ord), "store")
  BY <1>1, <1>2, PlaceAtEnd
<1> QED
  BY <1>1, <1>3 DEF MemType, Message

(* So does a read-modify-write of the newest message.                      *)
LEMMA ReadModifyWriteAtEnd ==
  ASSUME NEW L, NEW V, MemType(L, V), NEW t \in Thread, NEW x \in L, NEW v \in V, NEW ord,
         ReadModifyWrite(t, x, Newest(x), v, ord)
  PROVE  /\ Appended(L, x)
         /\ hist'[x][Newest(x) + 1].id = Newest(x) + 1
         /\ hist'[x][Newest(x) + 1].val = v
         /\ hist'[x][Newest(x) + 1].view = Continued(t, x, Newest(x), ord)
         /\ hist'[x][Newest(x) + 1].kind = "rmw"
<1> DEFINE i == Newest(x)
           view == Continued(t, x, i, ord)
<1>1. hist[x] \in Seq(Messages(L, V)) /\ i \in 1..Newest(x)
  BY LenProperties DEF MemType, Newest
<1>2. hist[x][i] \in Messages(L, V)
  BY <1>1, ElementOfSeq DEF Newest
<1>3. Observe(t, x, i, ord) \subseteq Events(L)
  BY <1>1, ObserveType
<1>4. view \in SUBSET Events(L)
  BY <1>2, <1>3 DEF Messages, MemType, Continued
<1>5. Place(x, Newest(x), v, view, "rmw")
  BY DEF ReadModifyWrite
<1> HIDE DEF view
<1>6. /\ Appended(L, x)
      /\ hist'[x][Newest(x) + 1] = Message(Newest(x) + 1, v, view, "rmw")
  BY <1>4, <1>5, PlaceAtEnd
<1> QED
  BY <1>6 DEF view, Message

(* Appending in execution order keeps the histories in execution order.    *)
LEMMA AppendedLinear ==
  ASSUME NEW L, NEW V, MemType(L, V), NEW x \in L, Appended(L, x),
         hist'[x][Newest(x) + 1].id = Newest(x) + 1, \A y \in L : Linear(y)
  PROVE  \A y \in L : Linear(y)'
<1>1. Len(hist[x]) \in Nat
  BY LenProperties DEF MemType
<1>2. \A k \in 1..(Len(hist[x]) + 1) : hist'[x][k].id = k
  BY <1>1 DEF Appended, Linear, Newest
<1> QED
  BY <1>2 DEF Appended, Linear
==============================================================================
