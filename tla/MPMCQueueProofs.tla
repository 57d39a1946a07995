-------------------------- MODULE MPMCQueueProofs --------------------------
(***************************************************************************)
(* Proofs about MPMCQueue, for every set of threads, any number of bins    *)
(* and every range of the counters, none of which comes round to where it  *)
(* began in the run (NoFullTurn).                                          *)
(***************************************************************************)
EXTENDS MPMCQueue, C11MemoryProofs, FiniteSetTheorems

Value == 0..(CountRange - 1)
Pair == [rd : Value, wr : Value]
Content == Pair \cup (0..CountRange)
Counters == {RdWr, Read, Written}
Label == {"idle", "claimBin", "awaitReads", "write", "publish",
          "claimItem", "awaitWrites", "read", "consume"}

(* How many steps a counter has made, and the numbers of the write and of  *)
(* the read that a thread has claimed, or means to claim, from 0.          *)
Steps(v) == Plus(v, CountRange - (Started % CountRange))
W == Steps(Current(RdWr).wr)
R == Steps(Current(RdWr).rd)
Wr(t) == Steps(rdwr[t].wr)
Rd(t) == Steps(rdwr[t].rd)

Claiming == {t \in Thread : pc[t] = "claimBin"}
Writing == {t \in Thread : pc[t] \in {"awaitReads", "write", "publish"}}
Reading == {t \in Thread : pc[t] \in {"awaitWrites", "read", "consume"}}
OpenWrites == {Wr(t) : t \in Writing}
OpenReads == {Rd(t) : t \in Reading}

(* The inductive invariant.  Types: of the memory and of the locals.       *)
Types ==
  /\ MemType(Loc, Content)
  /\ \A i \in 1..Newest(RdWr) : Val(RdWr, i) \in Pair
  /\ \A x \in {Read, Written} : \A i \in 1..Newest(x) : Val(x, i) \in Value
  /\ pc \in [Thread -> Label]
  /\ rdwr \in [Thread -> Pair]
  /\ writes \in 0..MaxWrites /\ reads \in 0..MaxReads
  /\ got \in [Thread -> 0..CountRange]

(* Chain: the counters are only changed by read-modify-writes, one after   *)
(* the other; all locations are written in the order of their histories.   *)
Chain ==
  /\ \A x \in Loc : Linear(x)
  /\ \A x \in Counters : \A k \in 2..Newest(x) : hist[x][k].kind = "rmw"

(* Counts: m_read and m_written have made a step for every claim that is   *)
(* no longer open, and no counter comes round in the run.                  *)
Counts ==
  /\ R <= W /\ W <= R + t_size
  /\ IsFiniteSet(Claiming) /\ W + Cardinality(Claiming) <= writes
  /\ \A x \in {Read, Written} : \A i \in 1..Newest(x) : Steps(Val(x, i)) = i - 1
  /\ OpenReads \subseteq 0..(R - 1) /\ OpenWrites \subseteq 0..(W - 1)
  /\ Newest(Read) - 1 + Cardinality(OpenReads) = R
  /\ Newest(Written) - 1 + Cardinality(OpenWrites) = W

(* Claims: what was free and what was filled when a claim was made, and    *)
(* that the numbers of two claims are in the order of the claims.          *)
Claims ==
  /\ \A t \in Thread : pc[t] = "claimBin" => ~Full(rdwr[t])
  /\ \A t \in Thread : pc[t] = "claimItem" => ~Empty(rdwr[t])
  /\ \A t \in Writing : Rd(t) <= Wr(t) /\ Wr(t) < Rd(t) + t_size /\ Rd(t) <= R
  /\ \A t \in Reading : Rd(t) < Wr(t) /\ Wr(t) <= Rd(t) + t_size /\ Wr(t) <= W
  /\ \A t, u \in Writing : (Wr(t) = Wr(u) => t = u) /\ (Wr(t) < Wr(u) => Rd(t) <= Rd(u))
  /\ \A t, u \in Reading : (Rd(t) = Rd(u) => t = u) /\ (Rd(t) < Rd(u) => Wr(t) <= Wr(u))
  /\ \A t \in Writing, u \in Reading : Rd(t) <= Rd(u) <=> Wr(t) < Wr(u)

(* Phases: a claim that is open keeps all later claims of the other kind   *)
(* waiting, and one that has been granted has none before it.              *)
ReadsWait(n) == \E u \in Reading : Rd(u) = n /\ pc[u] = "awaitWrites"
WritesWait(n) == \E u \in Writing : Wr(u) = n /\ pc[u] = "awaitReads"
Phases ==
  /\ \A t \in Writing : \A n \in Rd(t)..(R - 1) : ReadsWait(n)
  /\ \A t \in Reading : \A n \in Wr(t)..(W - 1) : WritesWait(n)
  /\ \A t \in Writing, u \in Reading :
       /\ pc[t] \in {"write", "publish"} => Rd(t) <= Rd(u)
       /\ pc[u] \in {"read", "consume"} => Wr(u) <= Wr(t)

(* Window: what has been stored is less than a round ahead of what has     *)
(* been consumed, and each bin holds what was stored there last.           *)
Stored(n) == n < W /\ \A t \in Writing : Wr(t) = n => pc[t] = "publish"
Unread(n) == R <= n \/ n \in OpenReads
Cell(k) == Current(Element(k))
Holding(v) == Cell(v % t_size) = Steps(v) + 1
Window ==
  /\ \A v, u \in Value : Stored(Steps(v)) /\ Unread(Steps(u)) => Steps(v) < Steps(u) + t_size
  /\ \A k \in Bin : Cell(k) = 0 \/ \E v \in Value : v % t_size = k /\ Holding(v) /\ Stored(Steps(v))
  /\ \A v \in Value : Stored(Steps(v)) /\ Unread(Steps(v)) => Holding(v)
  /\ \A t \in Thread : pc[t] = "consume" => got[t] = Item(rdwr[t].rd)

(* Handover: who holds a bin has seen all that happened to it; m_written   *)
(* carries that from the publication on, m_read from the consumption on.   *)
Knows(t, x) == \A j \in 1..Newest(x) : <<x, j>> \in cur[t]
KnowsBin(t, k) == Knows(t, Element(k)) /\ Knows(t, ReadsOf(k))
Carries(view, x) == \A j \in 2..Newest(x) : <<x, j>> \in view
CarriesBin(x, k) ==
  /\ Carries(hist[x][Newest(x)].view, Element(k))
  /\ Carries(hist[x][Newest(x)].view, ReadsOf(k))
Published(v) ==
  /\ \A t \in Thread : pc[t] = "publish" => rdwr[t].wr # v
  /\ \A t \in Thread : pc[t] = "consume" => rdwr[t].rd # v
Handover ==
  /\ \A t \in Thread, x \in Loc : <<x, 1>> \in cur[t]
  /\ \A t \in Thread : pc[t] \in {"write", "publish"} => KnowsBin(t, WriteBin(t))
  /\ \A t \in Thread : pc[t] \in {"read", "consume"} => KnowsBin(t, ReadBin(t))
  /\ \A k \in Bin : Cell(k) = 0 => CarriesBin(Read, k)
  /\ \A v \in Value : Holding(v) /\ ~Unread(Steps(v)) => CarriesBin(Read, v % t_size)
  /\ \A v \in Value : Holding(v) /\ Unread(Steps(v)) /\ Published(v) => CarriesBin(Written, v % t_size)

IInv == Types /\ Chain /\ Counts /\ Claims /\ Phases /\ Window /\ Handover

-----------------------------------------------------------------------------
(* Remainders of numbers below twice the range of the counters.            *)
LEMMA RemainderOfRange ==
  ASSUME NEW x \in Nat, x < 2 * CountRange
  PROVE  x % CountRange = IF x < CountRange THEN x ELSE x - CountRange
<1>1. CountRange \in Nat \ {0}
  BY MPMCAssumption
<1>2. CASE x < CountRange
  BY <1>1, <1>2
<1>3. CASE x >= CountRange
  <2>1. (x - CountRange) % CountRange = x - CountRange
    BY <1>1, <1>3
  <2>2. x % CountRange = (x - CountRange) % CountRange
    BY <1>1, <1>3
  <2> QED
    BY <1>1, <1>3, <2>1, <2>2
<1> QED
  BY <1>1, <1>2, <1>3

(* A counter starts at a value of its range.                               *)
LEMMA Ranges ==
  /\ CountRange \in Nat /\ t_size \in Nat /\ t_size >= 1 /\ CountRange > 2 * t_size
  /\ Started % CountRange \in Value
  /\ \A v \in Value : v \in Nat /\ v < CountRange
<1>1. CountRange \in Nat /\ t_size \in Nat /\ t_size >= 1 /\ CountRange > 2 * t_size /\ Started \in Nat
  BY MPMCAssumption
<1>2. Started % CountRange \in 0..(CountRange - 1)
  BY <1>1
<1> QED
  BY <1>1, <1>2 DEF Value

(* The steps of a counter, without the remainder.                          *)
LEMMA StepsIs ==
  ASSUME NEW v \in Value
  PROVE  Steps(v) = IF v >= Started % CountRange THEN v - (Started % CountRange)
                    ELSE v + CountRange - (Started % CountRange)
<1> DEFINE s == Started % CountRange
<1>1. s \in Value /\ CountRange \in Nat \ {0} /\ v \in Nat /\ v < CountRange
  BY Ranges
<1> HIDE DEF s
<1>2. PICK x \in Nat : x = v + (CountRange - s) /\ x < 2 * CountRange
  BY <1>1 DEF Value
<1>3. x % CountRange = IF x < CountRange THEN x ELSE x - CountRange
  BY <1>2, RemainderOfRange
<1>4. Steps(v) = x % CountRange
  BY <1>2 DEF Steps, Plus, s
<1> QED
  BY <1>1, <1>2, <1>3, <1>4 DEF s, Value

(* They are a number of their own for every value.                         *)
LEMMA StepsType ==
  /\ \A v \in Value : Steps(v) \in Value /\ Steps(v) \in Nat
  /\ \A u, v \in Value : Steps(u) = Steps(v) => u = v
  /\ Steps(Started % CountRange) = 0
BY Ranges, StepsIs DEF Value

(* Adding one makes one step more, as long as the counter has not come     *)
(* round.                                                                  *)
LEMMA OneMore ==
  ASSUME NEW v \in Value, Steps(v) + 1 < CountRange
  PROVE  Plus(v, 1) \in Value /\ Steps(Plus(v, 1)) = Steps(v) + 1
<1>1. PICK x \in Nat : x = v + 1 /\ x < 2 * CountRange
  BY Ranges DEF Value
<1>2. Plus(v, 1) = IF v + 1 < CountRange THEN v + 1 ELSE v + 1 - CountRange
  <2>1. x % CountRange = IF x < CountRange THEN x ELSE x - CountRange
    BY <1>1, RemainderOfRange
  <2>2. Plus(v, 1) = x % CountRange
    BY <1>1 DEF Plus
  <2> QED
    BY <1>1, <2>1, <2>2, Ranges
<1>3. Plus(v, 1) \in Value
  BY <1>1, <1>2, Ranges DEF Value
<1> QED
  BY <1>2, <1>3, StepsIs, Ranges DEF Value

(* The queue is full when the writes are t_size ahead of the reads, and    *)
(* empty when they are not ahead.                                          *)
LEMMA FullEmpty ==
  ASSUME NEW p \in Pair
  PROVE  /\ Steps(p.wr) = Steps(p.rd) + t_size => Full(p)
         /\ Steps(p.wr) = Steps(p.rd) => Empty(p)
<1>1. p.wr \in Value /\ p.rd \in Value
  BY DEF Pair
<1>2. PICK x \in Nat : x = p.rd + t_size /\ x < 2 * CountRange
  BY <1>1, Ranges DEF Value
<1>3. Plus(p.rd, t_size) = IF p.rd + t_size < CountRange THEN p.rd + t_size
                           ELSE p.rd + t_size - CountRange
  <2>1. x % CountRange = IF x < CountRange THEN x ELSE x - CountRange
    BY <1>2, RemainderOfRange
  <2>2. Plus(p.rd, t_size) = x % CountRange
    BY <1>2 DEF Plus
  <2> QED
    BY <1>1, <1>2, <2>1, <2>2, Ranges
<1>4. Steps(p.wr) = Steps(p.rd) + t_size => p.wr = Plus(p.rd, t_size)
  BY <1>1, <1>3, StepsIs, Ranges DEF Value
<1>5. Steps(p.wr) = Steps(p.rd) => p.wr = p.rd
  BY <1>1, StepsType
<1> QED
  BY <1>4, <1>5 DEF Full, Empty

(* Two numbers of the same bin are a round apart.                          *)
LEMMA Rounds ==
  ASSUME NEW u \in Value, NEW v \in Value, u % t_size = v % t_size, Steps(u) < Steps(v)
  PROVE  Steps(u) + t_size <= Steps(v)
<1> DEFINE n == Steps(v) - Steps(u)
<1>1. t_size \in Nat \ {0} /\ CountRange \in Nat /\ CountRange % t_size = 0
  BY Ranges, MPMCAssumption
<1>2. PICK a \in Int, b \in Int, c \in Int, r \in Int :
        u = a * t_size + r /\ v = b * t_size + r /\ CountRange = c * t_size
  <2>1. u \in Nat /\ v \in Nat
    BY Ranges
  <2>2. \A x \in Nat : \E q \in Int : x = q * t_size + (x % t_size)
    <3>1. ASSUME NEW x \in Nat
          PROVE  x = (x \div t_size) * t_size + (x % t_size) /\ x \div t_size \in Int
      BY <1>1
    <3> QED
      BY <3>1
  <2>3. PICK a \in Int : u = a * t_size + (u % t_size)
    BY <2>1, <2>2
  <2>4. PICK b \in Int : v = b * t_size + (v % t_size)
    BY <2>1, <2>2
  <2>5. PICK c \in Int : CountRange = c * t_size + 0
    BY <1>1, <2>2
  <2>6. u % t_size \in Int /\ c * t_size + 0 = c * t_size
    BY <1>1, <2>1
  <2> QED
    BY <2>3, <2>4, <2>5, <2>6
<1>3. n = v - u \/ n = v - u + CountRange \/ n = v - u - CountRange
  BY StepsIs, Ranges DEF Value
<1>4. \E k \in Int : n = k * t_size
  <2>1. v - u = (b - a) * t_size
    BY <1>1, <1>2
  <2>2. v - u + CountRange = (b - a + c) * t_size
    BY <1>1, <1>2
  <2>3. v - u - CountRange = (b - a - c) * t_size
    BY <1>1, <1>2
  <2>4. b - a \in Int /\ b - a + c \in Int /\ b - a - c \in Int
    OBVIOUS
  <2> QED
    BY <1>3, <2>1, <2>2, <2>3, <2>4
<1>5. n > 0 /\ Steps(u) \in Nat /\ Steps(v) \in Nat
  BY StepsType
<1>6. \A k \in Int : k * t_size > 0 => k * t_size >= t_size
  <2>1. ASSUME NEW k \in Int, k * t_size > 0
        PROVE  k >= 1
    BY <1>1, <2>1
  <2>2. ASSUME NEW k \in Int, k >= 1
        PROVE  k * t_size >= t_size
    BY <1>1, <2>2
  <2> QED
    BY <2>1, <2>2
<1>7. n >= t_size
  BY <1>4, <1>5, <1>6
<1> QED
  BY <1>1, <1>5, <1>7

-----------------------------------------------------------------------------
(* The locations are different.                                            *)
LEMMA Locations ==
  /\ Counters \subseteq Loc /\ RdWr # Read /\ RdWr # Written /\ Read # Written
  /\ \A k \in Bin : Element(k) \in Loc \ Counters /\ ReadsOf(k) \in Loc \ Counters
  /\ \A k, m : Element(k) # ReadsOf(m)
  /\ \A k, m : Element(k) = Element(m) => k = m
  /\ \A k, m : ReadsOf(k) = ReadsOf(m) => k = m
<1>1. /\ Len(RdWr) = 1 /\ Len(Read) = 1 /\ Len(Written) = 1
      /\ RdWr[1] = "m_rdwr" /\ Read[1] = "m_read" /\ Written[1] = "m_written"
  BY DEF RdWr, Read, Written
<1>2. \A k : Len(Element(k)) = 2 /\ Element(k)[1] = "m_array" /\ Element(k)[2] = k
  BY DEF Element
<1>3. \A k : Len(ReadsOf(k)) = 2 /\ ReadsOf(k)[1] = "reads" /\ ReadsOf(k)[2] = k
  BY DEF ReadsOf
<1> QED
  BY <1>1, <1>2, <1>3 DEF Loc, Counters

(* Lengths of the histories are positive numbers.                          *)
LEMMA Lengths ==
  ASSUME Types, NEW x \in Loc
  PROVE  Newest(x) \in Nat /\ Newest(x) >= 1 /\ hist[x] \in Seq(Messages(Loc, Content))
BY LenProperties DEF Types, MemType, Newest

(* The numbers that the invariant speaks of are numbers.                   *)
LEMMA Numbers ==
  ASSUME IInv
  PROVE  /\ Current(RdWr) \in Pair /\ W \in Nat /\ R \in Nat
         /\ Current(RdWr).wr \in Value /\ Current(RdWr).rd \in Value
         /\ W + Cardinality(Claiming) <= writes /\ writes <= MaxWrites /\ writes \in Nat
         /\ Cardinality(Claiming) \in Nat /\ MaxWrites < CountRange /\ MaxWrites \in Nat
         /\ W < CountRange /\ R < CountRange /\ t_size \in Nat /\ CountRange \in Nat
         /\ got \in [Thread -> 0..CountRange]
         /\ \A t \in Thread : /\ rdwr[t] \in Pair /\ rdwr[t].wr \in Value /\ rdwr[t].rd \in Value
                              /\ Wr(t) \in Nat /\ Rd(t) \in Nat
<1>1. Newest(RdWr) \in 1..Newest(RdWr)
  BY Lengths, Locations DEF IInv, Counters
<1>2. Current(RdWr) \in Pair
  BY <1>1 DEF IInv, Types, Current
<1>3. \A p \in Pair : p.wr \in Value /\ p.rd \in Value
  BY DEF Pair
<1>4. W \in Nat /\ R \in Nat
  BY <1>2, <1>3, StepsType DEF W, R
<1>5. /\ W + Cardinality(Claiming) <= writes /\ writes <= MaxWrites /\ writes \in Nat
      /\ Cardinality(Claiming) \in Nat /\ MaxWrites < CountRange /\ MaxWrites \in Nat
  BY MPMCAssumption, NoFullTurn, FS_CardinalityType DEF IInv, Counts, Types
<1>6. R <= W
  BY DEF IInv, Counts
<1>7. (\A t \in Thread : rdwr[t] \in Pair) /\ got \in [Thread -> 0..CountRange]
  BY DEF IInv, Types
<1>8. \A t \in Thread : Wr(t) \in Nat /\ Rd(t) \in Nat
  BY <1>3, <1>7, StepsType DEF Wr, Rd
<1> QED
  BY <1>2, <1>3, <1>4, <1>5, <1>6, <1>7, <1>8, MPMCAssumption

(* Every value of a counter has a bin.                                     *)
LEMMA BinType ==
  ASSUME NEW v \in Value
  PROVE  v % t_size \in Bin
BY Ranges DEF Bin

(* What a load leaves alone, and that views only grow.                     *)
LEMMA Loading ==
  ASSUME IInv, NEW t \in Thread, NEW x \in Loc, NEW i, NEW ord, Load(t, x, i, ord)
  PROVE  /\ i \in 1..Newest(x) /\ hist' = hist /\ MemType(Loc, Content)'
         /\ cur'[t] = Observe(t, x, i, ord)
         /\ \A u \in Thread : cur[u] \subseteq cur'[u]
<1>1. MemType(Loc, Content)
  BY DEF IInv, Types
<1>2. MemType(Loc, Content)' /\ i \in 1..Newest(x)
  BY <1>1, LoadType
<1>3. hist' = hist /\ cur' = [cur EXCEPT ![t] = Observe(t, x, i, ord)]
  BY DEF Load
<1> QED
  BY <1>1, <1>2, <1>3 DEF MemType, Observe

(* Who acquires the newest message of a counter knows what it carries.     *)
LEMMA Acquired ==
  ASSUME IInv, NEW t \in Thread, NEW x \in Loc, Load(t, x, Newest(x), acquire),
         NEW k \in Bin, CarriesBin(x, k)
  PROVE  KnowsBin(t, k)'
<1>1. hist' = hist /\ cur'[t] = Observe(t, x, Newest(x), acquire) /\ cur[t] \subseteq cur'[t]
  BY Loading
<1>2. hist[x][Newest(x)].view \subseteq cur'[t]
  BY <1>1 DEF Observe, Acquiring
<1>3. ASSUME NEW y \in {Element(k), ReadsOf(k)}
      PROVE  Knows(t, y)'
  <2>1. y \in Loc /\ Newest(y) \in Nat
    BY Locations, Lengths DEF IInv
  <2>2. <<y, 1>> \in cur'[t] /\ \A j \in 2..Newest(y) : <<y, j>> \in cur'[t]
    BY <1>1, <1>2, <2>1 DEF IInv, Handover, CarriesBin, Carries
  <2>3. \A j \in 1..Newest(y) : j = 1 \/ j \in 2..Newest(y)
    BY <2>1
  <2> QED
    BY <1>1, <2>2, <2>3 DEF Knows, Newest
<1> QED
  BY <1>3 DEF KnowsBin

(* A store to a location the thread knows goes to the end of its history.  *)
LEMMA Storing ==
  ASSUME IInv, NEW t \in Thread, NEW x \in Loc \ Counters, NEW v \in Content,
         Store(t, x, v, relaxed), Knows(t, x)
  PROVE  /\ Appended(Loc, x) /\ MemType(Loc, Content)' /\ Chain'
         /\ Current(x)' = v
         /\ Knows(t, x)'
         /\ \A u \in Thread : cur[u] \subseteq cur'[u]
<1>1. MemType(Loc, Content) /\ Newest(x) \in Nat /\ Newest(x) >= 1 /\ \A y \in Loc : Linear(y)
  BY Lengths DEF IInv, Types, Chain
<1>2. Event(x, Newest(x)) \in cur[t]
  BY <1>1 DEF Knows, Linear, Event, Newest
<1>3. /\ Appended(Loc, x)
      /\ hist'[x][Newest(x) + 1].id = Newest(x) + 1
      /\ hist'[x][Newest(x) + 1].val = v
      /\ cur'[t] = cur[t] \cup Upto(x, Newest(x)) \cup {NextEvent(x)}
      /\ \A u \in Thread \ {t} : cur'[u] = cur[u]
  BY <1>1, <1>2, StoreAtEnd
<1>4. MemType(Loc, Content)'
  BY <1>1, StoreType
<1>5. \A y \in Loc : Linear(y)'
  BY <1>1, <1>3, AppendedLinear
<1>6. Chain'
  <2>1. \A c \in Counters : hist'[c] = hist[c]
    BY <1>3, Locations DEF Appended
  <2> QED
    BY <1>5, <2>1 DEF IInv, Chain, Newest
<1>7. Newest(x)' = Newest(x) + 1
  BY <1>3 DEF Appended, Newest
<1>8. Current(x)' = v
  BY <1>3, <1>7 DEF Current, Val
<1>9. Knows(t, x)'
  BY <1>1, <1>3, <1>7 DEF Knows, NextEvent
<1> QED
  BY <1>1, <1>3, <1>4, <1>6, <1>8, <1>9

(* A read-modify-write of a counter goes to the end of its history as      *)
(* well, since a write cannot come between one and what it read.           *)
LEMMA Exchanging ==
  ASSUME IInv, NEW t \in Thread, NEW x \in Counters, NEW i, NEW v \in Content,
         NEW ord, ReadModifyWrite(t, x, i, v, ord)
  PROVE  /\ i = Newest(x)
         /\ Appended(Loc, x) /\ MemType(Loc, Content)' /\ Chain'
         /\ Newest(x) \in Nat /\ Newest(x) >= 1 /\ Newest(x)' = Newest(x) + 1
         /\ Current(x)' = v /\ \A k \in 1..Newest(x) : Val(x, k)' = Val(x, k)
         /\ ord \in Releasing => cur[t] \subseteq hist'[x][Newest(x) + 1].view
         /\ hist[x][Newest(x)].view \subseteq hist'[x][Newest(x) + 1].view
         /\ \A u \in Thread : cur[u] \subseteq cur'[u]
<1>1. MemType(Loc, Content) /\ Newest(x) \in Nat /\ Newest(x) >= 1 /\ x \in Loc
  BY Lengths, Locations DEF IInv, Types
<1>2. i \in 1..Newest(x) /\ (i < Newest(x) => hist[x][i + 1].kind # "rmw")
  BY DEF ReadModifyWrite, Extendable, Readable
<1>3. i = Newest(x)
  <2>1. i < Newest(x) => i + 1 \in 2..Newest(x)
    BY <1>1, <1>2
  <2> QED
    BY <1>1, <1>2, <2>1 DEF IInv, Chain
<1>4. /\ Appended(Loc, x)
      /\ hist'[x][Newest(x) + 1].id = Newest(x) + 1
      /\ hist'[x][Newest(x) + 1].val = v
      /\ hist'[x][Newest(x) + 1].view = Continued(t, x, i, ord)
      /\ hist'[x][Newest(x) + 1].kind = "rmw"
  BY <1>1, <1>3, ReadModifyWriteAtEnd
<1>5. MemType(Loc, Content)'
  BY <1>1, ReadModifyWriteType
<1>6. Newest(x)' = Newest(x) + 1 /\ \A y \in Loc \ {x} : hist'[y] = hist[y]
  BY <1>4 DEF Appended, Newest
<1>7. Chain'
  <2>1. \A y \in Loc : Linear(y)'
    BY <1>1, <1>4, AppendedLinear DEF IInv, Chain
  <2>2. \A k \in 2..(Newest(x) + 1) : hist'[x][k].kind = "rmw"
    <3>1. \A k \in 2..(Newest(x) + 1) : k \in 2..Newest(x) \/ k = Newest(x) + 1
      BY <1>1
    <3>2. \A k \in 2..Newest(x) : hist'[x][k] = hist[x][k]
      BY <1>1, <1>4 DEF Appended, Newest
    <3> QED
      BY <1>4, <3>1, <3>2 DEF IInv, Chain
  <2>3. \A c \in Counters \ {x} : hist'[c] = hist[c]
    BY <1>6, Locations
  <2> QED
    BY <1>6, <2>1, <2>2, <2>3 DEF IInv, Chain, Newest
<1>8. Current(x)' = v /\ \A k \in 1..Newest(x) : Val(x, k)' = Val(x, k)
  BY <1>4, <1>6 DEF Current, Val, Appended, Newest
<1>9. cur' = [cur EXCEPT ![t] = Observe(t, x, i, ord) \cup {NextEvent(x)}]
  BY DEF ReadModifyWrite
<1>10. \A u \in Thread : cur[u] \subseteq cur'[u]
  BY <1>1, <1>9 DEF MemType, Observe
<1>11. /\ ord \in Releasing => cur[t] \subseteq hist'[x][Newest(x) + 1].view
       /\ hist[x][Newest(x)].view \subseteq hist'[x][Newest(x) + 1].view
  BY <1>3, <1>4 DEF Continued, Observe
<1> QED
  BY <1>1, <1>3, <1>4, <1>5, <1>6, <1>7, <1>8, <1>10, <1>11

-----------------------------------------------------------------------------
(* No read from the one that a writer waits for on has been completed.     *)
LEMMA StillUnread ==
  ASSUME IInv, NEW t \in Writing, NEW n \in Nat, Rd(t) <= n
  PROVE  Unread(n)
<1>1. R \in Nat /\ t \in Thread /\ Rd(t) \in Nat
  BY Numbers DEF Writing
<1>2. CASE R <= n
  BY <1>2 DEF Unread
<1>3. CASE n < R
  <2>1. n \in Rd(t)..(R - 1)
    BY <1>1, <1>3
  <2>2. ReadsWait(n)
    BY <2>1 DEF IInv, Phases
  <2> QED
    BY <2>2 DEF ReadsWait, Unread, OpenReads
<1> QED
  BY <1>1, <1>2, <1>3

(* The numbers of the claims that are open are those of a phase.           *)
LEMMA OpenCounts ==
  ASSUME IInv
  PROVE  /\ IsFiniteSet(OpenReads) /\ IsFiniteSet(OpenWrites)
         /\ Cardinality(OpenReads) \in Nat /\ Cardinality(OpenWrites) \in Nat
         /\ \A t \in Reading : Rd(t) \in OpenReads /\ Rd(t) < R /\ Rd(t) \in Nat /\ Wr(t) \in Nat
         /\ \A t \in Writing : Wr(t) \in OpenWrites /\ Wr(t) < W /\ Wr(t) \in Nat /\ Rd(t) \in Nat
<1>1. R \in Nat /\ W \in Nat
  BY Numbers
<1>2. IsFiniteSet(0..(R - 1)) /\ IsFiniteSet(0..(W - 1))
  BY <1>1, FS_Interval
<1>3. OpenReads \subseteq 0..(R - 1) /\ OpenWrites \subseteq 0..(W - 1)
  BY DEF IInv, Counts
<1>4. IsFiniteSet(OpenReads) /\ IsFiniteSet(OpenWrites)
  BY <1>2, <1>3, FS_Subset
<1>5. Cardinality(OpenReads) \in Nat /\ Cardinality(OpenWrites) \in Nat
  BY <1>4, FS_CardinalityType
<1>6. \A t \in Reading : Rd(t) \in OpenReads /\ Rd(t) \in Nat /\ Wr(t) \in Nat
  BY Numbers DEF OpenReads, Reading
<1>7. \A t \in Writing : Wr(t) \in OpenWrites /\ Wr(t) \in Nat /\ Rd(t) \in Nat
  BY Numbers DEF OpenWrites, Writing
<1> QED
  BY <1>1, <1>3, <1>4, <1>5, <1>6, <1>7

(* The size of an interval.                                                *)
LEMMA Interval ==
  ASSUME NEW a \in Nat, NEW b \in Nat, a <= b
  PROVE  IsFiniteSet(a..(b - 1)) /\ Cardinality(a..(b - 1)) = b - a
<1>1. PICK c \in Int : c = b - 1
  OBVIOUS
<1>2. a \in Int
  OBVIOUS
<1>3. IsFiniteSet(a..c) /\ Cardinality(a..c) = IF a > c THEN 0 ELSE c - a + 1
  BY <1>1, <1>2, FS_Interval
<1>4. (IF a > c THEN 0 ELSE c - a + 1) = b - a
  BY <1>1
<1> QED
  BY <1>1, <1>3, <1>4

(* A writer that finds m_read at the value it waits for has read its last  *)
(* change, and all the reads before its claim have been completed.         *)
LEMMA WriterGranted ==
  ASSUME IInv, NEW t \in Writing, NEW i \in 1..Newest(Read), Val(Read, i) = rdwr[t].rd
  PROVE  i = Newest(Read) /\ OpenReads = Rd(t)..(R - 1)
<1>1. /\ R \in Nat /\ Rd(t) \in Nat /\ Rd(t) <= R /\ Newest(Read) \in Nat
      /\ IsFiniteSet(OpenReads) /\ Cardinality(OpenReads) \in Nat
  BY Numbers, Lengths, Locations, OpenCounts DEF IInv, Claims, Counters
<1>2. Steps(Val(Read, i)) = i - 1
  BY DEF IInv, Counts
<1>3. Rd(t) = i - 1
  BY <1>2 DEF Rd
<1>4. Rd(t)..(R - 1) \subseteq OpenReads
  BY DEF IInv, Phases, ReadsWait, OpenReads
<1>5. /\ IsFiniteSet(Rd(t)..(R - 1))
      /\ Cardinality(Rd(t)..(R - 1)) = R - Rd(t)
  BY <1>1, Interval
<1>6. /\ Cardinality(Rd(t)..(R - 1)) <= Cardinality(OpenReads)
      /\ Cardinality(OpenReads) = Cardinality(Rd(t)..(R - 1)) => OpenReads = Rd(t)..(R - 1)
  BY <1>1, <1>4, FS_Subset
<1>7. Newest(Read) - 1 + Cardinality(OpenReads) = R
  BY DEF IInv, Counts
<1> QED
  BY <1>1, <1>3, <1>5, <1>6, <1>7

(* The same for a reader and m_written.                                    *)
LEMMA ReaderGranted ==
  ASSUME IInv, NEW t \in Reading, NEW i \in 1..Newest(Written), Val(Written, i) = rdwr[t].wr
  PROVE  i = Newest(Written) /\ OpenWrites = Wr(t)..(W - 1)
<1>1. /\ W \in Nat /\ Wr(t) \in Nat /\ Wr(t) <= W /\ Newest(Written) \in Nat
      /\ IsFiniteSet(OpenWrites) /\ Cardinality(OpenWrites) \in Nat
  BY Numbers, Lengths, Locations, OpenCounts DEF IInv, Claims, Counters
<1>2. Steps(Val(Written, i)) = i - 1
  BY DEF IInv, Counts
<1>3. Wr(t) = i - 1
  BY <1>2 DEF Wr
<1>4. Wr(t)..(W - 1) \subseteq OpenWrites
  BY DEF IInv, Phases, WritesWait, OpenWrites
<1>5. /\ IsFiniteSet(Wr(t)..(W - 1))
      /\ Cardinality(Wr(t)..(W - 1)) = W - Wr(t)
  BY <1>1, Interval
<1>6. /\ Cardinality(Wr(t)..(W - 1)) <= Cardinality(OpenWrites)
      /\ Cardinality(OpenWrites) = Cardinality(Wr(t)..(W - 1)) => OpenWrites = Wr(t)..(W - 1)
  BY <1>1, <1>4, FS_Subset
<1>7. Newest(Written) - 1 + Cardinality(OpenWrites) = W
  BY DEF IInv, Counts
<1> QED
  BY <1>1, <1>3, <1>5, <1>6, <1>7

(* What a granted reader reads has been stored and not been read before.   *)
LEMMA ReaderFinds ==
  ASSUME IInv, NEW t \in Reading, \A u \in Writing : Wr(t) <= Wr(u)
  PROVE  Stored(Rd(t)) /\ Unread(Rd(t)) /\ Holding(rdwr[t].rd)
<1>1. /\ Rd(t) < Wr(t) /\ Wr(t) <= W /\ rdwr[t].rd \in Value
      /\ Rd(t) \in Nat /\ Wr(t) \in Nat /\ W \in Nat /\ Rd(t) \in OpenReads
  BY Numbers, OpenCounts DEF IInv, Claims, Reading
<1>2. \A u \in Writing : Wr(u) # Rd(t)
  BY <1>1, OpenCounts
<1>3. Stored(Rd(t)) /\ Unread(Rd(t))
  BY <1>1, <1>2 DEF Stored, Unread
<1> QED
  BY <1>1, <1>3 DEF IInv, Window, Rd

(* No two threads hold the same bin.                                       *)
LEMMA WritersApart ==
  ASSUME IInv, NEW t \in Writing, NEW u \in Writing, pc[u] \in {"write", "publish"},
         Wr(t) < Wr(u)
  PROVE  WriteBin(t) # WriteBin(u)
<1>1. /\ Wr(t) \in Nat /\ Wr(u) \in Nat /\ Rd(t) \in Nat /\ Rd(u) \in Nat /\ R \in Nat
      /\ t_size \in Nat /\ rdwr[t].wr \in Value /\ rdwr[u].wr \in Value
  BY Numbers DEF Writing
<1>2. Rd(t) <= Rd(u) /\ Rd(t) <= Wr(t) /\ Wr(u) < Rd(u) + t_size /\ Rd(u) <= R
  BY DEF IInv, Claims
<1>3. Rd(t) = Rd(u)
  <2> SUFFICES ASSUME Rd(t) < Rd(u)
               PROVE  FALSE
    BY <1>1, <1>2
  <2>1. ReadsWait(Rd(t))
    BY <1>1, <1>2 DEF IInv, Phases
  <2>2. PICK w \in Reading : Rd(w) = Rd(t)
    BY <2>1 DEF ReadsWait
  <2>3. Rd(u) <= Rd(w)
    BY DEF IInv, Phases
  <2> QED
    BY <1>1, <2>2, <2>3
<1>4. ~(Wr(t) + t_size <= Wr(u))
  BY <1>1, <1>2, <1>3
<1> QED
  BY <1>1, <1>4, Rounds DEF WriteBin, Wr

LEMMA ReadersApart ==
  ASSUME IInv, NEW t \in Reading, NEW u \in Reading, pc[u] \in {"read", "consume"},
         Rd(t) < Rd(u)
  PROVE  ReadBin(t) # ReadBin(u)
<1>1. /\ Wr(t) \in Nat /\ Wr(u) \in Nat /\ Rd(t) \in Nat /\ Rd(u) \in Nat /\ W \in Nat
      /\ t_size \in Nat /\ rdwr[t].rd \in Value /\ rdwr[u].rd \in Value
  BY Numbers DEF Reading
<1>2. Wr(t) <= Wr(u) /\ Rd(u) < Wr(u) /\ Wr(t) <= Rd(t) + t_size /\ Wr(u) <= W
  BY DEF IInv, Claims
<1>3. Wr(t) = Wr(u)
  <2> SUFFICES ASSUME Wr(t) < Wr(u)
               PROVE  FALSE
    BY <1>1, <1>2
  <2>1. WritesWait(Wr(t))
    BY <1>1, <1>2 DEF IInv, Phases
  <2>2. PICK w \in Writing : Wr(w) = Wr(t)
    BY <2>1 DEF WritesWait
  <2>3. Wr(u) <= Wr(w)
    BY DEF IInv, Phases
  <2> QED
    BY <1>1, <2>2, <2>3
<1>4. ~(Rd(t) + t_size <= Rd(u))
  BY <1>1, <1>2, <1>3
<1> QED
  BY <1>1, <1>4, Rounds DEF ReadBin, Rd

LEMMA OnePhase ==
  ASSUME IInv, NEW t \in Thread, pc[t] \in {"write", "publish"},
         NEW u \in Thread, pc[u] \in {"read", "consume"}
  PROVE  FALSE
<1>1. t \in Writing /\ u \in Reading
  BY DEF Writing, Reading
<1>2. Rd(t) <= Rd(u) /\ Rd(u) < R /\ R \in Nat /\ Rd(u) \in Nat /\ Rd(t) \in Nat
  BY <1>1, Numbers, OpenCounts DEF IInv, Phases
<1>3. Rd(u) \in Rd(t)..(R - 1)
  BY <1>2
<1>4. PICK w \in Reading : Rd(w) = Rd(u) /\ pc[w] = "awaitWrites"
  BY <1>1, <1>3 DEF IInv, Phases, ReadsWait
<1> QED
  BY <1>1, <1>4 DEF IInv, Claims

LEMMA OneHolder ==
  ASSUME IInv, NEW t \in Thread, NEW u \in Thread, NEW k \in Bin, Holds(t, k), Holds(u, k)
  PROVE  t = u
<1>1. CASE pc[t] \in {"write", "publish"} /\ pc[u] \in {"write", "publish"}
  <2>1. t \in Writing /\ u \in Writing /\ WriteBin(t) = WriteBin(u)
    BY <1>1 DEF Writing, Holds
  <2>2. ~(Wr(t) < Wr(u)) /\ ~(Wr(u) < Wr(t))
    BY <1>1, <2>1, WritersApart
  <2> QED
    BY <2>1, <2>2, OpenCounts DEF IInv, Claims
<1>2. CASE pc[t] \in {"read", "consume"} /\ pc[u] \in {"read", "consume"}
  <2>1. t \in Reading /\ u \in Reading /\ ReadBin(t) = ReadBin(u)
    BY <1>2 DEF Reading, Holds
  <2>2. ~(Rd(t) < Rd(u)) /\ ~(Rd(u) < Rd(t))
    BY <1>2, <2>1, ReadersApart
  <2> QED
    BY <2>1, <2>2, OpenCounts DEF IInv, Claims
<1> QED
  BY <1>1, <1>2, OnePhase DEF Holds

-----------------------------------------------------------------------------
(* As long as nobody makes a claim or completes one the counts stay.       *)
LEMMA SameClaims ==
  ASSUME IInv, \A c \in Counters : hist'[c] = hist[c], Writing' = Writing, Reading' = Reading,
         \A t \in Writing \cup Reading : rdwr'[t] = rdwr[t],
         IsFiniteSet(Claiming)', W + Cardinality(Claiming)' <= writes',
         \A t \in Thread : pc'[t] = "claimBin" => ~Full(rdwr'[t]),
         \A t \in Thread : pc'[t] = "claimItem" => ~Empty(rdwr'[t])
  PROVE  /\ Counts' /\ Claims' /\ W' = W /\ R' = R
         /\ OpenReads' = OpenReads /\ OpenWrites' = OpenWrites
         /\ \A t \in Writing \cup Reading : Wr(t)' = Wr(t) /\ Rd(t)' = Rd(t)
<1>1. \A c \in Counters : /\ Newest(c)' = Newest(c) /\ Current(c)' = Current(c)
                          /\ \A i : Val(c, i)' = Val(c, i)
  BY DEF Newest, Current, Val
<1>2. RdWr \in Counters /\ Read \in Counters /\ Written \in Counters
  BY DEF Counters
<1>3. W' = W /\ R' = R
  BY <1>1, <1>2 DEF W, R
<1>4. \A t \in Writing \cup Reading : Wr(t)' = Wr(t) /\ Rd(t)' = Rd(t)
  BY DEF Wr, Rd
<1>5. OpenReads' = OpenReads /\ OpenWrites' = OpenWrites
  BY <1>4 DEF OpenReads, OpenWrites
<1>6. Counts'
  BY <1>1, <1>2, <1>3, <1>5 DEF IInv, Counts
<1>7. Claims'
  BY <1>3, <1>4 DEF IInv, Claims
<1> QED
  BY <1>3, <1>4, <1>5, <1>6, <1>7

(* What the threads know, and what they left behind, stays.                *)
LEMMA StillKnown ==
  ASSUME NEW t \in Thread, NEW k, cur[t] \subseteq cur'[t],
         hist'[Element(k)] = hist[Element(k)], hist'[ReadsOf(k)] = hist[ReadsOf(k)],
         KnowsBin(t, k)
  PROVE  KnowsBin(t, k)'
BY DEF KnowsBin, Knows, Newest

LEMMA StillCarried ==
  ASSUME NEW x, NEW k, hist'[x] = hist[x],
         hist'[Element(k)] = hist[Element(k)], hist'[ReadsOf(k)] = hist[ReadsOf(k)],
         CarriesBin(x, k)
  PROVE  CarriesBin(x, k)'
BY DEF CarriesBin, Carries, Newest

(* A step that only loads, and leaves alone who has made a claim and who   *)
(* has been granted one.                                                   *)
LEMMA Quiet ==
  ASSUME IInv, hist' = hist, MemType(Loc, Content)', \A u \in Thread : cur[u] \subseteq cur'[u],
         Writing' = Writing, Reading' = Reading,
         \A t \in Writing \cup Reading : pc'[t] = pc[t] /\ rdwr'[t] = rdwr[t], got' = got,
         IsFiniteSet(Claiming)', W + Cardinality(Claiming)' <= writes',
         pc' \in [Thread -> Label], rdwr' \in [Thread -> Pair],
         writes' \in 0..MaxWrites, reads' \in 0..MaxReads,
         \A t \in Thread : pc'[t] = "claimBin" => ~Full(rdwr'[t]),
         \A t \in Thread : pc'[t] = "claimItem" => ~Empty(rdwr'[t])
  PROVE  IInv'
<1>1. /\ Counts' /\ Claims' /\ W' = W /\ R' = R
      /\ OpenReads' = OpenReads /\ OpenWrites' = OpenWrites
      /\ \A t \in Writing \cup Reading : Wr(t)' = Wr(t) /\ Rd(t)' = Rd(t)
  BY SameClaims
<1>2. \A x : Newest(x)' = Newest(x) /\ Current(x)' = Current(x) /\ \A i : Val(x, i)' = Val(x, i)
  BY DEF Newest, Current, Val
<1>3. Types'
  BY <1>2 DEF IInv, Types
<1>4. Chain'
  BY DEF IInv, Chain, Linear, Newest
<1>5. /\ \A t \in Thread : pc'[t] \in {"write", "publish"} => t \in Writing
      /\ \A t \in Thread : pc'[t] \in {"read", "consume"} => t \in Reading
  BY DEF Writing, Reading
<1>6. Phases'
  <2>1. \A n : (ReadsWait(n) => ReadsWait(n)') /\ (WritesWait(n) => WritesWait(n)')
    BY <1>1 DEF ReadsWait, WritesWait
  <2> QED
    BY <1>1, <2>1 DEF IInv, Phases
<1>7. /\ \A n : (Stored(n)' <=> Stored(n)) /\ (Unread(n)' <=> Unread(n))
      /\ \A v : Holding(v)' <=> Holding(v)
      /\ \A k : Cell(k)' = Cell(k)
  BY <1>1, <1>2 DEF Stored, Unread, Holding, Cell
<1>8. Window'
  BY <1>5, <1>7 DEF IInv, Window
<1>9. Handover'
  <2>1. \A t \in Thread, x \in Loc : <<x, 1>> \in cur'[t]
    BY DEF IInv, Handover
  <2>2. ASSUME NEW t \in Thread, pc'[t] \in {"write", "publish"}
        PROVE  KnowsBin(t, WriteBin(t))'
    <3>1. pc[t] \in {"write", "publish"} /\ WriteBin(t)' = WriteBin(t)
      BY <1>5, <2>2 DEF WriteBin
    <3>2. PICK k : k = WriteBin(t)
      OBVIOUS
    <3>3. KnowsBin(t, k)'
      BY <3>1, <3>2, StillKnown DEF IInv, Handover
    <3> QED
      BY <3>1, <3>2, <3>3 DEF KnowsBin, Knows
  <2>3. ASSUME NEW t \in Thread, pc'[t] \in {"read", "consume"}
        PROVE  KnowsBin(t, ReadBin(t))'
    <3>1. pc[t] \in {"read", "consume"} /\ ReadBin(t)' = ReadBin(t)
      BY <1>5, <2>3 DEF ReadBin
    <3>2. PICK k : k = ReadBin(t)
      OBVIOUS
    <3>3. KnowsBin(t, k)'
      BY <3>1, <3>2, StillKnown DEF IInv, Handover
    <3> QED
      BY <3>1, <3>2, <3>3 DEF KnowsBin, Knows
  <2>4. \A x, k : CarriesBin(x, k) => CarriesBin(x, k)'
    BY StillCarried
  <2>5. \A v : Published(v)' => Published(v)
    <3>1. \A t \in Thread : pc[t] \in {"publish", "consume"} => pc'[t] = pc[t] /\ rdwr'[t] = rdwr[t]
      BY DEF Writing, Reading
    <3> QED
      BY <3>1 DEF Published
  <2> QED
    BY <1>7, <2>1, <2>2, <2>3, <2>4, <2>5 DEF IInv, Handover
<1> QED
  BY <1>1, <1>3, <1>4, <1>6, <1>8, <1>9 DEF IInv

-----------------------------------------------------------------------------
(* write_prepare() looks at m_rdwr, at the call and when it could not make *)
(* its claim.                                                              *)
LEMMA PrepareLoadStep ==
  ASSUME IInv, NEW t \in Thread, Prepare_Call(t) \/ Prepare_Retry(t)
  PROVE  IInv'
<1>1. PICK i : /\ Load(t, RdWr, i, OrderPrepareLoad)
               /\ rdwr' = [rdwr EXCEPT ![t] = Val(RdWr, i)]
               /\ pc' = [pc EXCEPT ![t] = IF Full(Val(RdWr, i)) THEN "idle" ELSE "claimBin"]
  BY DEF Prepare_Call, Prepare_Retry, Prepare_LoadRdWr, MoveTo
<1>2. /\ got' = got /\ reads' = reads
      /\ \/ pc[t] = "idle" /\ writes < MaxWrites /\ writes' = writes + 1
         \/ pc[t] = "claimBin" /\ writes' = writes
  BY DEF Prepare_Call, Prepare_Retry
<1>3. /\ i \in 1..Newest(RdWr) /\ hist' = hist /\ MemType(Loc, Content)'
      /\ \A u \in Thread : cur[u] \subseteq cur'[u]
  BY <1>1, Loading, Locations DEF Counters
<1>4. Val(RdWr, i) \in Pair /\ pc \in [Thread -> Label] /\ rdwr \in [Thread -> Pair]
      /\ writes \in 0..MaxWrites /\ reads \in 0..MaxReads
  BY <1>3 DEF IInv, Types
<1>5. /\ pc'[t] = IF Full(Val(RdWr, i)) THEN "idle" ELSE "claimBin"
      /\ rdwr'[t] = Val(RdWr, i)
      /\ \A u \in Thread \ {t} : pc'[u] = pc[u] /\ rdwr'[u] = rdwr[u]
  BY <1>1, <1>4
<1>6. /\ pc' \in [Thread -> Label] /\ rdwr' \in [Thread -> Pair]
      /\ writes' \in 0..MaxWrites /\ reads' \in 0..MaxReads
  BY <1>1, <1>2, <1>4, Numbers DEF Label
<1>7. Writing' = Writing /\ Reading' = Reading /\ t \notin Writing \cup Reading
  BY <1>2, <1>5 DEF Writing, Reading
<1>8. Claiming' = Claiming \cup {t} \/ Claiming' = Claiming \ {t}
  BY <1>5 DEF Claiming
<1>9. IsFiniteSet(Claiming)' /\ W + Cardinality(Claiming)' <= writes'
  <2>1. IsFiniteSet(Claiming) /\ (t \in Claiming <=> pc[t] = "claimBin")
    BY DEF IInv, Counts, Claiming
  <2>2. /\ IsFiniteSet(Claiming \cup {t})
        /\ Cardinality(Claiming \cup {t}) =
             IF t \in Claiming THEN Cardinality(Claiming) ELSE Cardinality(Claiming) + 1
    BY <2>1, FS_AddElement
  <2>3. /\ IsFiniteSet(Claiming \ {t})
        /\ Cardinality(Claiming \ {t}) =
             IF t \in Claiming THEN Cardinality(Claiming) - 1 ELSE Cardinality(Claiming)
    BY <2>1, FS_RemoveElement
  <2>4. W + Cardinality(Claiming \cup {t}) <= writes' /\ W + Cardinality(Claiming \ {t}) <= writes'
    BY <1>2, <2>1, <2>2, <2>3, Numbers
  <2> QED
    BY <1>8, <2>2, <2>3, <2>4
<1>10. /\ \A u \in Thread : pc'[u] = "claimBin" => ~Full(rdwr'[u])
       /\ \A u \in Thread : pc'[u] = "claimItem" => ~Empty(rdwr'[u])
  BY <1>5 DEF IInv, Claims
<1>11. \A u \in Writing \cup Reading : pc'[u] = pc[u] /\ rdwr'[u] = rdwr[u]
  BY <1>5, <1>7 DEF Writing, Reading
<1> QED
  BY <1>2, <1>3, <1>6, <1>7, <1>9, <1>10, <1>11, Quiet

(* So does read_fetch().                                                   *)
LEMMA FetchLoadStep ==
  ASSUME IInv, NEW t \in Thread, Fetch_Call(t) \/ Fetch_Retry(t)
  PROVE  IInv'
<1>1. PICK i : /\ Load(t, RdWr, i, OrderFetchLoad)
               /\ rdwr' = [rdwr EXCEPT ![t] = Val(RdWr, i)]
               /\ pc' = [pc EXCEPT ![t] = IF Empty(Val(RdWr, i)) THEN "idle" ELSE "claimItem"]
  BY DEF Fetch_Call, Fetch_Retry, Fetch_LoadRdWr, MoveTo
<1>2. /\ got' = got /\ writes' = writes
      /\ \/ pc[t] = "idle" /\ reads < MaxReads /\ reads' = reads + 1
         \/ pc[t] = "claimItem" /\ reads' = reads
  BY DEF Fetch_Call, Fetch_Retry
<1>3. /\ i \in 1..Newest(RdWr) /\ hist' = hist /\ MemType(Loc, Content)'
      /\ \A u \in Thread : cur[u] \subseteq cur'[u]
  BY <1>1, Loading, Locations DEF Counters
<1>4. Val(RdWr, i) \in Pair /\ pc \in [Thread -> Label] /\ rdwr \in [Thread -> Pair]
      /\ writes \in 0..MaxWrites /\ reads \in 0..MaxReads
  BY <1>3 DEF IInv, Types
<1>5. /\ pc'[t] = IF Empty(Val(RdWr, i)) THEN "idle" ELSE "claimItem"
      /\ rdwr'[t] = Val(RdWr, i)
      /\ \A u \in Thread \ {t} : pc'[u] = pc[u] /\ rdwr'[u] = rdwr[u]
  BY <1>1, <1>4
<1>6. /\ pc' \in [Thread -> Label] /\ rdwr' \in [Thread -> Pair]
      /\ writes' \in 0..MaxWrites /\ reads' \in 0..MaxReads
  BY <1>1, <1>2, <1>4, MPMCAssumption DEF Label
<1>7. Writing' = Writing /\ Reading' = Reading /\ t \notin Writing \cup Reading
  BY <1>2, <1>5 DEF Writing, Reading
<1>8. Claiming' = Claiming
  BY <1>2, <1>5 DEF Claiming
<1>9. IsFiniteSet(Claiming)' /\ W + Cardinality(Claiming)' <= writes'
  BY <1>2, <1>8 DEF IInv, Counts
<1>10. /\ \A u \in Thread : pc'[u] = "claimBin" => ~Full(rdwr'[u])
       /\ \A u \in Thread : pc'[u] = "claimItem" => ~Empty(rdwr'[u])
  BY <1>5 DEF IInv, Claims
<1>11. \A u \in Writing \cup Reading : pc'[u] = pc[u] /\ rdwr'[u] = rdwr[u]
  BY <1>5, <1>7 DEF Writing, Reading
<1> QED
  BY <1>2, <1>3, <1>6, <1>7, <1>9, <1>10, <1>11, Quiet

(* The state of a thread that keeps waiting is as before.                  *)
LEMMA StillWaiting ==
  ASSUME IInv, NEW t \in Thread, NEW x \in Counters, NEW i, Load(t, x, i, acquire),
         UNCHANGED <<pc, rdwr, writes, reads, got>>
  PROVE  IInv'
<1>1. /\ hist' = hist /\ MemType(Loc, Content)' /\ \A u \in Thread : cur[u] \subseteq cur'[u]
  BY Loading, Locations
<1>2. Writing' = Writing /\ Reading' = Reading /\ Claiming' = Claiming
  BY DEF Writing, Reading, Claiming
<1> QED
  BY <1>1, <1>2, Quiet DEF IInv, Types, Counts, Claims

(* A claim that is granted or used, but not completed, leaves the counts,  *)
(* the claims, and what has been read and what has not, as they are.       *)
LEMMA SameOpen ==
  ASSUME IInv, NEW t \in Thread, NEW to \in Label, \A c \in Counters : hist'[c] = hist[c],
         MemType(Loc, Content)', Chain', pc' = [pc EXCEPT ![t] = to],
         UNCHANGED <<rdwr, writes, reads>>, got' \in [Thread -> 0..CountRange],
         \/ t \in Writing /\ to \in {"write", "publish"}
         \/ t \in Reading /\ to \in {"read", "consume"}
  PROVE  /\ Types' /\ Counts' /\ Claims' /\ W' = W /\ R' = R
         /\ Writing' = Writing /\ Reading' = Reading
         /\ pc'[t] = to /\ \A u \in Thread \ {t} : pc'[u] = pc[u]
         /\ \A u : Wr(u)' = Wr(u) /\ Rd(u)' = Rd(u)
         /\ \A n : Unread(n)' <=> Unread(n)
<1>1. pc'[t] = to /\ \A u \in Thread \ {t} : pc'[u] = pc[u]
  BY DEF IInv, Types
<1>2. Writing' = Writing /\ Reading' = Reading
  BY <1>1 DEF Writing, Reading
<1>3. Claiming' = Claiming
  BY <1>1 DEF Claiming, Writing, Reading
<1>4. /\ \A u \in Thread : pc'[u] = "claimBin" => ~Full(rdwr'[u])
      /\ \A u \in Thread : pc'[u] = "claimItem" => ~Empty(rdwr'[u])
  BY <1>1 DEF IInv, Claims
<1>5. /\ Counts' /\ Claims' /\ W' = W /\ R' = R /\ OpenReads' = OpenReads
  BY <1>2, <1>3, <1>4, SameClaims DEF IInv, Counts
<1>6. Types'
  <2>1. \A c \in Counters : Newest(c)' = Newest(c) /\ \A i : Val(c, i)' = Val(c, i)
    BY DEF Newest, Val
  <2> QED
    BY <2>1 DEF IInv, Types, Counters
<1>7. \A u : Wr(u)' = Wr(u) /\ Rd(u)' = Rd(u)
  BY DEF Wr, Rd
<1>8. \A n : Unread(n)' <=> Unread(n)
  BY <1>5 DEF Unread
<1> QED
  BY <1>1, <1>2, <1>5, <1>6, <1>7, <1>8

(* What a thread knows of the bin it has been granted does not depend on   *)
(* the name it has for it.                                                 *)
LEMMA BinsKept ==
  ASSUME UNCHANGED rdwr
  PROVE  /\ \A u, k : k = WriteBin(u) /\ KnowsBin(u, k)' => KnowsBin(u, WriteBin(u))'
         /\ \A u, k : k = ReadBin(u) /\ KnowsBin(u, k)' => KnowsBin(u, ReadBin(u))'
BY DEF KnowsBin, Knows, WriteBin, ReadBin

(* A writer that has claimed a bin waits until the reads before its claim  *)
(* have been completed; it then knows all that happened to the bin.        *)
LEMMA AwaitReadsStep ==
  ASSUME IInv, NEW t \in Thread, Prepare_AwaitReads(t)
  PROVE  IInv'
<1>1. PICK i : /\ Load(t, Read, i, acquire)
               /\ pc' = IF Val(Read, i) = rdwr[t].rd THEN [pc EXCEPT ![t] = "write"] ELSE pc
  BY DEF Prepare_AwaitReads, Await, OrderPrepareWait
<1>2. /\ pc[t] = "awaitReads" /\ UNCHANGED <<rdwr, writes, reads, got>> /\ t \in Writing
  BY DEF Prepare_AwaitReads, Writing
<1>3. CASE Val(Read, i) # rdwr[t].rd
  BY <1>1, <1>2, <1>3, StillWaiting DEF Counters
<1>4. CASE Val(Read, i) = rdwr[t].rd
  <2>1. /\ i \in 1..Newest(Read) /\ hist' = hist /\ MemType(Loc, Content)'
        /\ \A u \in Thread : cur[u] \subseteq cur'[u]
    BY <1>1, Loading, Locations DEF Counters
  <2>2. i = Newest(Read) /\ OpenReads = Rd(t)..(R - 1)
    BY <1>2, <1>4, <2>1, WriterGranted
  <2>3. Chain'
    BY <2>1 DEF IInv, Chain, Linear, Newest
  <2>4. /\ Types' /\ Counts' /\ Claims' /\ W' = W /\ R' = R
        /\ Writing' = Writing /\ Reading' = Reading
        /\ pc'[t] = "write" /\ \A u \in Thread \ {t} : pc'[u] = pc[u]
        /\ \A u : Wr(u)' = Wr(u) /\ Rd(u)' = Rd(u)
        /\ \A n : Unread(n)' <=> Unread(n)
    BY <1>1, <1>2, <1>4, <2>1, <2>3, SameOpen, Numbers DEF Label
  <2>5. /\ Rd(t) \in Nat /\ R \in Nat /\ Wr(t) \in Nat /\ t_size \in Nat /\ W \in Nat
        /\ Rd(t) <= R /\ Rd(t) <= Wr(t) /\ Wr(t) < Rd(t) + t_size
        /\ rdwr[t].wr \in Value /\ rdwr[t].rd \in Value
    BY <1>2, Numbers DEF IInv, Claims
  <2>6. \A u \in Reading : Rd(t) <= Rd(u) /\ Wr(t) < Wr(u)
    <3>1. \A u \in Reading : Rd(t) <= Rd(u)
      BY <2>2, <2>5, OpenCounts
    <3> QED
      BY <1>2, <3>1 DEF IInv, Claims
  <2>7. Phases'
    <3>1. \A n : ReadsWait(n) => ReadsWait(n)'
      BY <1>2, <2>4 DEF ReadsWait, Reading
    <3>2. \A n : WritesWait(n) /\ n # Wr(t) => WritesWait(n)'
      BY <2>4 DEF WritesWait, Writing
    <3>3. ASSUME NEW u \in Reading, NEW n \in Wr(u)..(W - 1)
          PROVE  WritesWait(n)'
      <4>1. WritesWait(n)
        BY <3>3 DEF IInv, Phases
      <4>2. n # Wr(t)
        BY <2>5, <2>6, OpenCounts
      <4> QED
        BY <3>2, <4>1, <4>2
    <3>4. ASSUME NEW v \in Writing, NEW u \in Reading
          PROVE  /\ pc'[v] \in {"write", "publish"} => Rd(v) <= Rd(u)
                 /\ pc'[u] \in {"read", "consume"} => Wr(u) <= Wr(v)
      BY <1>2, <2>4, <2>6 DEF IInv, Phases, Writing, Reading
    <3> QED
      BY <2>4, <3>1, <3>3, <3>4 DEF IInv, Phases
  <2>8. /\ \A n : Stored(n)' <=> Stored(n)
        /\ \A v : Holding(v)' <=> Holding(v)
        /\ \A k : Cell(k)' = Cell(k)
    BY <1>2, <2>1, <2>4 DEF Stored, Writing, Holding, Cell, Current, Val, Newest
  <2>9. Window'
    BY <1>2, <2>4, <2>8 DEF IInv, Window
  <2>10. PICK k \in Bin : k = WriteBin(t)
    BY <2>5, BinType DEF WriteBin
  <2>11. CarriesBin(Read, k)
    <3>1. CASE Cell(k) = 0
      BY <3>1 DEF IInv, Handover
    <3>2. CASE Cell(k) # 0
      <4>1. PICK v \in Value : v % t_size = k /\ Holding(v) /\ Stored(Steps(v))
        BY <3>2 DEF IInv, Window
      <4>2. Steps(v) \in Nat /\ v % t_size = rdwr[t].wr % t_size
        BY <2>10, <4>1, StepsType DEF WriteBin
      <4>3. Steps(v) # Wr(t)
        BY <1>2, <4>1 DEF Stored
      <4>4. ~(Wr(t) < Steps(v))
        <5>1. Unread(Rd(t))
          BY <1>2, <2>5, StillUnread
        <5>2. Steps(v) < Rd(t) + t_size
          BY <2>5, <4>1, <5>1 DEF IInv, Window, Rd
        <5>3. Wr(t) < Steps(v) => Wr(t) + t_size <= Steps(v)
          BY <2>5, <4>2, Rounds DEF Wr
        <5> QED
          BY <2>5, <4>2, <5>2, <5>3
      <4>5. Steps(v) < Rd(t)
        <5>1. Steps(v) < Wr(t) => Steps(v) + t_size <= Wr(t)
          BY <2>5, <4>2, Rounds DEF Wr
        <5> QED
          BY <2>5, <4>2, <4>3, <4>4, <5>1
      <4>6. ~Unread(Steps(v))
        BY <2>2, <2>5, <4>2, <4>5 DEF Unread
      <4> QED
        BY <4>1, <4>6 DEF IInv, Handover
    <3> QED
      BY <3>1, <3>2
  <2>12. KnowsBin(t, k)'
    BY <1>1, <2>2, <2>11, Acquired, Locations DEF Counters
  <2>13. Handover'
    <3>1. \A u \in Thread, x \in Loc : <<x, 1>> \in cur'[u]
      BY <2>1 DEF IInv, Handover
    <3>2. \A u \in Thread : \A m : KnowsBin(u, m) => KnowsBin(u, m)'
      BY <2>1, StillKnown
    <3>3. \A u \in Thread : pc'[u] \in {"write", "publish"} => KnowsBin(u, WriteBin(u))'
      BY <1>2, <2>4, <2>10, <2>12, <3>2, BinsKept DEF IInv, Handover
    <3>4. \A u \in Thread : pc'[u] \in {"read", "consume"} => KnowsBin(u, ReadBin(u))'
      BY <1>2, <2>4, <3>2, BinsKept DEF IInv, Handover
    <3>5. \A x, m : CarriesBin(x, m) => CarriesBin(x, m)'
      BY <2>1, StillCarried
    <3>6. \A v : Published(v)' => Published(v)
      BY <1>2, <2>4 DEF Published
    <3> QED
      BY <2>4, <2>8, <3>1, <3>3, <3>4, <3>5, <3>6 DEF IInv, Handover
  <2> QED
    BY <2>3, <2>4, <2>7, <2>9, <2>13 DEF IInv
<1> QED
  BY <1>3, <1>4

(* A reader waits until the writes before its claim have been published;   *)
(* it then knows the bin, and finds its item there.                        *)
LEMMA AwaitWritesStep ==
  ASSUME IInv, NEW t \in Thread, Fetch_AwaitWrites(t)
  PROVE  IInv'
<1>1. PICK i : /\ Load(t, Written, i, acquire)
               /\ pc' = IF Val(Written, i) = rdwr[t].wr THEN [pc EXCEPT ![t] = "read"] ELSE pc
  BY DEF Fetch_AwaitWrites, Await, OrderFetchWait
<1>2. /\ pc[t] = "awaitWrites" /\ UNCHANGED <<rdwr, writes, reads, got>> /\ t \in Reading
  BY DEF Fetch_AwaitWrites, Reading
<1>3. CASE Val(Written, i) # rdwr[t].wr
  BY <1>1, <1>2, <1>3, StillWaiting DEF Counters
<1>4. CASE Val(Written, i) = rdwr[t].wr
  <2>1. /\ i \in 1..Newest(Written) /\ hist' = hist /\ MemType(Loc, Content)'
        /\ \A u \in Thread : cur[u] \subseteq cur'[u]
    BY <1>1, Loading, Locations DEF Counters
  <2>2. i = Newest(Written) /\ OpenWrites = Wr(t)..(W - 1)
    BY <1>2, <1>4, <2>1, ReaderGranted
  <2>3. Chain'
    BY <2>1 DEF IInv, Chain, Linear, Newest
  <2>4. /\ Types' /\ Counts' /\ Claims' /\ W' = W /\ R' = R
        /\ Writing' = Writing /\ Reading' = Reading
        /\ pc'[t] = "read" /\ \A u \in Thread \ {t} : pc'[u] = pc[u]
        /\ \A u : Wr(u)' = Wr(u) /\ Rd(u)' = Rd(u)
        /\ \A n : Unread(n)' <=> Unread(n)
    BY <1>1, <1>2, <1>4, <2>1, <2>3, SameOpen, Numbers DEF Label
  <2>5. /\ Rd(t) \in Nat /\ Wr(t) \in Nat /\ W \in Nat /\ R \in Nat /\ Rd(t) < Wr(t)
        /\ rdwr[t].wr \in Value /\ rdwr[t].rd \in Value
    BY <1>2, Numbers DEF IInv, Claims
  <2>6. /\ \A u \in Writing : Wr(t) <= Wr(u)
        /\ \A u \in Writing : Rd(u) # Rd(t) => ~(Rd(u) <= Rd(t))
        /\ \A u \in Writing : ~(Rd(u) <= Rd(t))
    <3>1. \A u \in Writing : Wr(t) <= Wr(u) /\ Wr(u) \in Nat
      BY <2>2, <2>5, OpenCounts
    <3>2. \A u \in Writing : ~(Rd(u) <= Rd(t))
      <4>1. \A u \in Writing : Rd(u) <= Rd(t) => Wr(u) < Wr(t)
        BY <1>2 DEF IInv, Claims
      <4> QED
        BY <2>5, <3>1, <4>1
    <3> QED
      BY <3>1, <3>2
  <2>7. Phases'
    <3>1. \A n : WritesWait(n) => WritesWait(n)'
      BY <1>2, <2>4 DEF WritesWait, Writing
    <3>2. \A n : ReadsWait(n) /\ n # Rd(t) => ReadsWait(n)'
      BY <2>4 DEF ReadsWait, Reading
    <3>3. ASSUME NEW u \in Writing, NEW n \in Rd(u)..(R - 1)
          PROVE  ReadsWait(n)'
      <4>1. ReadsWait(n)
        BY <3>3 DEF IInv, Phases
      <4>2. n # Rd(t)
        BY <2>5, <2>6, OpenCounts
      <4> QED
        BY <3>2, <4>1, <4>2
    <3>4. ASSUME NEW v \in Writing, NEW u \in Reading
          PROVE  /\ pc'[v] \in {"write", "publish"} => Rd(v) <= Rd(u)
                 /\ pc'[u] \in {"read", "consume"} => Wr(u) <= Wr(v)
      BY <1>2, <2>4, <2>6 DEF IInv, Phases, Writing, Reading
    <3> QED
      BY <2>4, <3>1, <3>3, <3>4 DEF IInv, Phases
  <2>8. /\ \A n : Stored(n)' <=> Stored(n)
        /\ \A v : Holding(v)' <=> Holding(v)
        /\ \A k : Cell(k)' = Cell(k)
    <3>1. \A u \in Writing : pc'[u] = pc[u]
      BY <1>2, <2>4 DEF Writing
    <3> QED
      BY <2>1, <2>4, <3>1 DEF Stored, Holding, Cell, Current, Val, Newest
  <2>9. Window'
    BY <1>2, <2>4, <2>8 DEF IInv, Window
  <2>10. PICK k \in Bin : k = ReadBin(t)
    BY <2>5, BinType DEF ReadBin
  <2>11. CarriesBin(Written, k)
    <3>1. Unread(Rd(t)) /\ Holding(rdwr[t].rd)
      BY <1>2, <2>6, ReaderFinds
    <3>2. \A u \in Thread : pc[u] = "publish" => rdwr[u].wr # rdwr[t].rd
      <4>1. \A u \in Thread : pc[u] = "publish" => Wr(t) <= Wr(u) /\ Wr(u) \in Nat
        BY <2>6, OpenCounts DEF Writing
      <4>2. \A u \in Thread : pc[u] = "publish" => Wr(u) # Rd(t)
        BY <2>5, <4>1
      <4> QED
        BY <4>2 DEF Wr, Rd
    <3>3. \A u \in Thread : pc[u] = "consume" => rdwr[u].rd # rdwr[t].rd
      <4>1. \A u \in Thread : pc[u] = "consume" => Rd(u) # Rd(t)
        BY <1>2 DEF IInv, Claims, Reading
      <4> QED
        BY <4>1 DEF Rd
    <3>4. Published(rdwr[t].rd)
      BY <3>2, <3>3 DEF Published
    <3> QED
      BY <2>5, <2>10, <3>1, <3>4 DEF IInv, Handover, Rd, ReadBin
  <2>12. KnowsBin(t, k)'
    BY <1>1, <2>2, <2>11, Acquired, Locations DEF Counters
  <2>13. Handover'
    <3>1. \A u \in Thread, x \in Loc : <<x, 1>> \in cur'[u]
      BY <2>1 DEF IInv, Handover
    <3>2. \A u \in Thread : \A m : KnowsBin(u, m) => KnowsBin(u, m)'
      BY <2>1, StillKnown
    <3>3. \A u \in Thread : pc'[u] \in {"write", "publish"} => KnowsBin(u, WriteBin(u))'
      BY <1>2, <2>4, <3>2, BinsKept DEF IInv, Handover
    <3>4. \A u \in Thread : pc'[u] \in {"read", "consume"} => KnowsBin(u, ReadBin(u))'
      BY <1>2, <2>4, <2>10, <2>12, <3>2, BinsKept DEF IInv, Handover
    <3>5. \A x, m : CarriesBin(x, m) => CarriesBin(x, m)'
      BY <2>1, StillCarried
    <3>6. \A v : Published(v)' => Published(v)
      BY <1>2, <2>4 DEF Published
    <3> QED
      BY <2>4, <2>8, <3>1, <3>3, <3>4, <3>5, <3>6 DEF IInv, Handover
  <2> QED
    BY <2>3, <2>4, <2>7, <2>9, <2>13 DEF IInv
<1> QED
  BY <1>3, <1>4

(* The phases do not depend on how far the threads that were granted a bin *)
(* have come with it.                                                      *)
LEMMA SamePhases ==
  ASSUME IInv, W' = W, R' = R, Writing' = Writing, Reading' = Reading,
         \A u : Wr(u)' = Wr(u) /\ Rd(u)' = Rd(u),
         \A u \in Thread : /\ pc'[u] = "awaitReads" <=> pc[u] = "awaitReads"
                           /\ pc'[u] = "awaitWrites" <=> pc[u] = "awaitWrites"
                           /\ pc'[u] \in {"write", "publish"} => pc[u] \in {"write", "publish"}
                           /\ pc'[u] \in {"read", "consume"} => pc[u] \in {"read", "consume"}
  PROVE  Phases'
<1>1. \A n : (WritesWait(n) => WritesWait(n)') /\ (ReadsWait(n) => ReadsWait(n)')
  BY DEF WritesWait, ReadsWait, Writing, Reading
<1> QED
  BY <1>1 DEF IInv, Phases, Writing, Reading

(* The writer fills its bin.                                               *)
LEMMA WriteElementStep ==
  ASSUME IInv, NEW t \in Thread, WriteElement(t)
  PROVE  IInv'
<1>1. /\ pc[t] = "write" /\ pc' = [pc EXCEPT ![t] = "publish"]
      /\ UNCHANGED <<rdwr, writes, reads, got>> /\ t \in Writing
      /\ Store(t, Element(WriteBin(t)), Item(rdwr[t].wr), relaxed)
  BY DEF WriteElement, Goto, MoveTo, Writing
<1>2. /\ Rd(t) \in Nat /\ R \in Nat /\ Wr(t) \in Nat /\ t_size \in Nat /\ W \in Nat
      /\ Rd(t) <= R /\ Rd(t) <= Wr(t) /\ Wr(t) < Rd(t) + t_size /\ Wr(t) < W
      /\ rdwr[t].wr \in Value /\ rdwr[t].rd \in Value
  BY <1>1, Numbers, OpenCounts DEF IInv, Claims
<1>3. PICK k \in Bin : k = WriteBin(t)
  BY <1>2, BinType DEF WriteBin
<1>4. Item(rdwr[t].wr) = Wr(t) + 1 /\ Item(rdwr[t].wr) \in Content
  <2>1. Item(rdwr[t].wr) = Wr(t) + 1
    BY DEF Item, Wr, Steps
  <2>2. Wr(t) \in Value
    BY <1>2, StepsType DEF Wr
  <2> QED
    BY <2>1, <2>2, Ranges DEF Value, Content
<1>5. KnowsBin(t, k) /\ Element(k) \in Loc \ Counters
  BY <1>1, <1>3, Locations DEF IInv, Handover
<1>6. /\ Appended(Loc, Element(k)) /\ MemType(Loc, Content)' /\ Chain'
      /\ Current(Element(k))' = Wr(t) + 1 /\ Knows(t, Element(k))'
      /\ \A u \in Thread : cur[u] \subseteq cur'[u]
  BY <1>1, <1>3, <1>4, <1>5, Storing DEF KnowsBin
<1>7. /\ \A c \in Counters : hist'[c] = hist[c]
      /\ \A m \in Bin : hist'[ReadsOf(m)] = hist[ReadsOf(m)]
      /\ \A m \in Bin \ {k} : hist'[Element(m)] = hist[Element(m)]
  BY <1>5, <1>6, Locations DEF Appended
<1>8. /\ Types' /\ Counts' /\ Claims' /\ W' = W /\ R' = R
      /\ Writing' = Writing /\ Reading' = Reading
      /\ pc'[t] = "publish" /\ \A u \in Thread \ {t} : pc'[u] = pc[u]
      /\ \A u : Wr(u)' = Wr(u) /\ Rd(u)' = Rd(u)
      /\ \A n : Unread(n)' <=> Unread(n)
  BY <1>1, <1>6, <1>7, SameOpen, Numbers DEF Label
<1>9. Phases'
  BY <1>1, <1>8, SamePhases
<1>10. \A n : Stored(n)' <=> Stored(n) \/ n = Wr(t)
  <2>1. \A u \in Writing : u # t => Wr(u) # Wr(t)
    BY <1>1 DEF IInv, Claims
  <2> QED
    BY <1>1, <1>2, <1>8, <2>1 DEF Stored, Writing
<1>11. /\ \A m \in Bin \ {k} : Cell(m)' = Cell(m)
       /\ Cell(k)' = Wr(t) + 1 /\ Cell(k)' # 0
       /\ \A v \in Value : v % t_size # k => (Holding(v)' <=> Holding(v))
       /\ \A v \in Value : v % t_size = k => (Holding(v)' <=> v = rdwr[t].wr)
  <2>1. /\ \A m \in Bin \ {k} : Cell(m)' = Cell(m)
        /\ Cell(k)' = Wr(t) + 1 /\ Cell(k)' # 0
    BY <1>2, <1>6, <1>7 DEF Cell, Current, Val, Newest
  <2>2. \A v \in Value : v % t_size # k => (Holding(v)' <=> Holding(v))
    BY <2>1, BinType DEF Holding
  <2>3. \A v \in Value : v % t_size = k => (Holding(v)' <=> v = rdwr[t].wr)
    <3>1. \A v \in Value : Steps(v) + 1 = Wr(t) + 1 <=> v = rdwr[t].wr
      BY <1>2, StepsType DEF Wr
    <3> QED
      BY <2>1, <3>1 DEF Holding
  <2> QED
    BY <2>1, <2>2, <2>3
<1>12. \A n \in Nat : Rd(t) <= n => Unread(n)
  BY <1>1, StillUnread
<1>13. \A n \in Nat : Unread(n) => Rd(t) <= n
  <2>1. \A u \in Reading : Rd(t) <= Rd(u)
    BY <1>1 DEF IInv, Phases
  <2> QED
    BY <1>2, <2>1 DEF Unread, OpenReads
<1>14. ASSUME NEW v \in Value, Stored(Steps(v)), Unread(Steps(v))
       PROVE  v % t_size # k
  <2>1. Steps(v) \in Nat /\ Rd(t) <= Steps(v)
    BY <1>13, <1>14, StepsType
  <2>2. Steps(v) < Rd(t) + t_size
    BY <1>2, <1>12, <1>14 DEF IInv, Window, Rd
  <2>3. Steps(v) # Wr(t)
    BY <1>1, <1>14 DEF Stored
  <2>4. v % t_size = k => Steps(v) + t_size <= Wr(t) \/ Wr(t) + t_size <= Steps(v)
    BY <1>2, <1>3, <2>1, <2>3, Rounds DEF Wr, WriteBin
  <2> QED
    BY <1>2, <2>1, <2>2, <2>4
<1>15. Window'
  <2>1. ASSUME NEW v \in Value, NEW u \in Value, Stored(Steps(v))', Unread(Steps(u))'
        PROVE  Steps(v) < Steps(u) + t_size
    <3>1. Steps(v) \in Nat /\ Steps(u) \in Nat /\ Unread(Steps(u))
      BY <1>8, <2>1, StepsType
    <3>2. CASE Stored(Steps(v))
      BY <2>1, <3>1, <3>2 DEF IInv, Window
    <3>3. CASE Steps(v) = Wr(t)
      BY <1>2, <1>13, <3>1, <3>3
    <3> QED
      BY <1>10, <2>1, <3>2, <3>3
  <2>2. ASSUME NEW m \in Bin
        PROVE  Cell(m)' = 0 \/ \E v \in Value : v % t_size = m /\ Holding(v)' /\ Stored(Steps(v))'
    <3>1. CASE m = k
      BY <1>2, <1>3, <1>10, <1>11, <3>1 DEF Wr, WriteBin
    <3>2. CASE m # k
      BY <1>10, <1>11, <3>2 DEF IInv, Window
    <3> QED
      BY <3>1, <3>2
  <2>3. ASSUME NEW v \in Value, Stored(Steps(v))', Unread(Steps(v))'
        PROVE  Holding(v)'
    <3>1. CASE Stored(Steps(v))
      BY <1>8, <1>11, <1>14, <2>3, <3>1 DEF IInv, Window
    <3>2. CASE Steps(v) = Wr(t)
      <4>1. v = rdwr[t].wr
        BY <1>2, <3>2, StepsType DEF Wr
      <4> QED
        BY <1>3, <1>11, <4>1 DEF WriteBin
    <3> QED
      BY <1>10, <2>3, <3>1, <3>2
  <2>4. \A u \in Thread : pc'[u] = "consume" => got'[u] = Item(rdwr'[u].rd)
    BY <1>1, <1>8 DEF IInv, Window
  <2> QED
    BY <2>1, <2>2, <2>3, <2>4 DEF Window
<1>16. Handover'
  <2>1. \A u \in Thread, x \in Loc : <<x, 1>> \in cur'[u]
    BY <1>6 DEF IInv, Handover
  <2>2. \A u \in Thread, m \in Bin \ {k} : KnowsBin(u, m) => KnowsBin(u, m)'
    BY <1>6, <1>7, StillKnown
  <2>3. KnowsBin(t, k)'
    BY <1>5, <1>6, <1>7 DEF KnowsBin, Knows, Newest
  <2>4. Holds(t, k)
    BY <1>1, <1>3 DEF Holds
  <2>5. ASSUME NEW u \in Thread, pc'[u] \in {"write", "publish"}
        PROVE  KnowsBin(u, WriteBin(u))'
    <3>1. CASE u = t
      BY <1>1, <1>3, <2>3, <3>1, BinsKept
    <3>2. CASE u # t
      <4>1. pc[u] \in {"write", "publish"} /\ WriteBin(u) \in Bin
        BY <1>8, <2>5, <3>2, Numbers, BinType DEF WriteBin
      <4>2. WriteBin(u) # k
        BY <2>4, <3>2, <4>1, OneHolder DEF Holds
      <4> QED
        BY <1>1, <2>2, <4>1, <4>2, BinsKept DEF IInv, Handover
    <3> QED
      BY <3>1, <3>2
  <2>6. ASSUME NEW u \in Thread, pc'[u] \in {"read", "consume"}
        PROVE  KnowsBin(u, ReadBin(u))'
    <3>1. pc[u] \in {"read", "consume"} /\ u # t /\ ReadBin(u) \in Bin
      BY <1>8, <2>6, Numbers, BinType DEF ReadBin
    <3>2. ReadBin(u) # k
      BY <2>4, <3>1, OneHolder DEF Holds
    <3> QED
      BY <1>1, <2>2, <3>1, <3>2, BinsKept DEF IInv, Handover
  <2>7. \A x \in Counters, m \in Bin \ {k} : CarriesBin(x, m) => CarriesBin(x, m)'
    BY <1>7, StillCarried
  <2>8. \A m \in Bin : Cell(m)' = 0 => CarriesBin(Read, m)'
    BY <1>11, <2>7 DEF IInv, Handover, Counters
  <2>9. ASSUME NEW v \in Value, Holding(v)', ~Unread(Steps(v))'
        PROVE  CarriesBin(Read, v % t_size)'
    <3>1. v % t_size # k
      <4>1. Unread(Wr(t))
        BY <1>2, <1>12
      <4> QED
        BY <1>8, <1>11, <2>9, <4>1 DEF Wr
    <3>2. PICK m \in Bin \ {k} : m = v % t_size
      BY <3>1, BinType
    <3>3. CarriesBin(Read, m)
      BY <1>8, <1>11, <2>9, <3>2 DEF IInv, Handover
    <3> QED
      BY <2>7, <3>2, <3>3 DEF Counters
  <2>10. ASSUME NEW v \in Value, Holding(v)', Unread(Steps(v))', Published(v)'
         PROVE  CarriesBin(Written, v % t_size)'
    <3>1. v # rdwr[t].wr /\ Published(v)
      BY <1>1, <1>8, <2>10 DEF Published
    <3>2. PICK m \in Bin \ {k} : m = v % t_size
      BY <1>11, <2>10, <3>1, BinType
    <3>3. CarriesBin(Written, m)
      BY <1>8, <1>11, <2>10, <3>1, <3>2 DEF IInv, Handover
    <3> QED
      BY <2>7, <3>2, <3>3 DEF Counters
  <2> QED
    BY <2>1, <2>5, <2>6, <2>8, <2>9, <2>10 DEF Handover
<1> QED
  BY <1>6, <1>8, <1>9, <1>15, <1>16 DEF IInv

(* The reader takes the item out of its bin.                               *)
LEMMA ReadElementStep ==
  ASSUME IInv, NEW t \in Thread, ReadElement(t)
  PROVE  IInv'
<1>1. /\ pc[t] = "read" /\ pc' = [pc EXCEPT ![t] = "consume"]
      /\ UNCHANGED <<rdwr, writes, reads>> /\ t \in Reading
      /\ Store(t, ReadsOf(ReadBin(t)), 0, relaxed)
  BY DEF ReadElement, Goto, MoveTo, Reading
<1>2. PICK i \in Readable(t, Element(ReadBin(t)), relaxed) :
        got' = [got EXCEPT ![t] = Val(Element(ReadBin(t)), i)]
  BY DEF ReadElement
<1>3. /\ rdwr[t].rd \in Value /\ Rd(t) \in Nat /\ Rd(t) < CountRange /\ CountRange \in Nat
      /\ got \in [Thread -> 0..CountRange]
  BY <1>1, Numbers, StepsType, Ranges DEF Rd
<1>4. PICK k \in Bin : k = ReadBin(t)
  BY <1>3, BinType DEF ReadBin
<1>5. KnowsBin(t, k) /\ Element(k) \in Loc \ Counters /\ ReadsOf(k) \in Loc \ Counters
  BY <1>1, <1>4, Locations DEF IInv, Handover
<1>6. /\ Holding(rdwr[t].rd) /\ Unread(Rd(t))
      /\ \A u \in Writing : Wr(u) # Rd(t)
  <2>1. \A u \in Writing : Wr(t) <= Wr(u)
    BY <1>1 DEF IInv, Phases
  <2>2. Rd(t) < Wr(t) /\ Wr(t) \in Nat
    BY <1>1, Numbers DEF IInv, Claims
  <2> QED
    BY <1>1, <1>3, <2>1, <2>2, ReaderFinds, OpenCounts
<1>7. Cell(k) = Rd(t) + 1 /\ Item(rdwr[t].rd) = Rd(t) + 1
  BY <1>4, <1>6 DEF Holding, ReadBin, Rd, Item, Steps
<1>8. Val(Element(k), i) = Rd(t) + 1
  <2>1. Newest(Element(k)) \in Nat /\ Newest(Element(k)) >= 1
    BY <1>5, Lengths DEF IInv
  <2>2. Event(Element(k), Newest(Element(k))) \in cur[t]
    BY <1>5, <2>1 DEF IInv, Chain, Linear, KnowsBin, Knows, Event, Newest
  <2>3. i = Newest(Element(k))
    BY <1>2, <1>4, <1>5, <2>2, NewestSeen DEF IInv, Types
  <2> QED
    BY <1>7, <2>3 DEF Cell, Current
<1>9. /\ got'[t] = Item(rdwr[t].rd) /\ \A u \in Thread \ {t} : got'[u] = got[u]
      /\ got' \in [Thread -> 0..CountRange]
  BY <1>2, <1>3, <1>4, <1>7, <1>8
<1>10. /\ Appended(Loc, ReadsOf(k)) /\ MemType(Loc, Content)' /\ Chain'
       /\ Knows(t, ReadsOf(k))'
       /\ \A u \in Thread : cur[u] \subseteq cur'[u]
  <2>1. 0 \in Content
    BY <1>3 DEF Content
  <2> QED
    BY <1>1, <1>4, <1>5, <2>1, Storing DEF KnowsBin
<1>11. /\ \A c \in Counters : hist'[c] = hist[c]
       /\ \A m \in Bin : hist'[Element(m)] = hist[Element(m)]
       /\ \A m \in Bin \ {k} : hist'[ReadsOf(m)] = hist[ReadsOf(m)]
  BY <1>5, <1>10, Locations DEF Appended
<1>12. /\ Types' /\ Counts' /\ Claims' /\ W' = W /\ R' = R
       /\ Writing' = Writing /\ Reading' = Reading
       /\ pc'[t] = "consume" /\ \A u \in Thread \ {t} : pc'[u] = pc[u]
       /\ \A u : Wr(u)' = Wr(u) /\ Rd(u)' = Rd(u)
       /\ \A n : Unread(n)' <=> Unread(n)
  BY <1>1, <1>9, <1>10, <1>11, SameOpen DEF Label
<1>13. Phases'
  BY <1>1, <1>12, SamePhases
<1>14. /\ \A n : Stored(n)' <=> Stored(n)
       /\ \A m \in Bin : Cell(m)' = Cell(m)
       /\ \A v \in Value : Holding(v)' <=> Holding(v)
  <2>1. \A u \in Writing : pc'[u] = pc[u]
    BY <1>1, <1>12 DEF Writing
  <2>2. \A m \in Bin : Cell(m)' = Cell(m)
    BY <1>11 DEF Cell, Current, Val, Newest
  <2> QED
    BY <1>12, <2>1, <2>2, BinType DEF Stored, Holding
<1>15. Window'
  BY <1>1, <1>9, <1>12, <1>14 DEF IInv, Window
<1>16. Handover'
  <2>1. \A u \in Thread, x \in Loc : <<x, 1>> \in cur'[u]
    BY <1>10 DEF IInv, Handover
  <2>2. \A u \in Thread, m \in Bin \ {k} : KnowsBin(u, m) => KnowsBin(u, m)'
    BY <1>10, <1>11, StillKnown
  <2>3. KnowsBin(t, k)'
    BY <1>5, <1>10, <1>11 DEF KnowsBin, Knows, Newest
  <2>4. Holds(t, k)
    BY <1>1, <1>4 DEF Holds
  <2>5. ASSUME NEW u \in Thread, pc'[u] \in {"write", "publish"}
        PROVE  KnowsBin(u, WriteBin(u))'
    <3>1. pc[u] \in {"write", "publish"} /\ u # t /\ WriteBin(u) \in Bin
      BY <1>12, <2>5, Numbers, BinType DEF WriteBin
    <3>2. WriteBin(u) # k
      BY <2>4, <3>1, OneHolder DEF Holds
    <3> QED
      BY <1>1, <2>2, <3>1, <3>2, BinsKept DEF IInv, Handover
  <2>6. ASSUME NEW u \in Thread, pc'[u] \in {"read", "consume"}
        PROVE  KnowsBin(u, ReadBin(u))'
    <3>1. CASE u = t
      BY <1>1, <1>4, <2>3, <3>1, BinsKept
    <3>2. CASE u # t
      <4>1. pc[u] \in {"read", "consume"} /\ ReadBin(u) \in Bin
        BY <1>12, <2>6, <3>2, Numbers, BinType DEF ReadBin
      <4>2. ReadBin(u) # k
        BY <2>4, <3>2, <4>1, OneHolder DEF Holds
      <4> QED
        BY <1>1, <2>2, <4>1, <4>2, BinsKept DEF IInv, Handover
    <3> QED
      BY <3>1, <3>2
  <2>7. \A x \in Counters, m \in Bin \ {k} : CarriesBin(x, m) => CarriesBin(x, m)'
    BY <1>11, StillCarried
  <2>8. \A m \in Bin : Cell(m)' = 0 => CarriesBin(Read, m)'
    BY <1>3, <1>7, <1>14, <2>7 DEF IInv, Handover, Counters
  <2>9. \A v \in Value : v % t_size = k /\ Holding(v) => v = rdwr[t].rd
    <3>1. \A v \in Value : Steps(v) + 1 = Rd(t) + 1 => v = rdwr[t].rd
      BY <1>3, StepsType DEF Rd
    <3> QED
      BY <1>7, <3>1 DEF Holding
  <2>10. ASSUME NEW v \in Value, Holding(v)', ~Unread(Steps(v))'
         PROVE  CarriesBin(Read, v % t_size)'
    <3>1. v % t_size # k
      BY <1>6, <1>12, <1>14, <2>9, <2>10 DEF Rd
    <3>2. PICK m \in Bin \ {k} : m = v % t_size
      BY <3>1, BinType
    <3>3. CarriesBin(Read, m)
      BY <1>12, <1>14, <2>10, <3>2 DEF IInv, Handover
    <3> QED
      BY <2>7, <3>2, <3>3 DEF Counters
  <2>11. ASSUME NEW v \in Value, Holding(v)', Unread(Steps(v))', Published(v)'
         PROVE  CarriesBin(Written, v % t_size)'
    <3>1. v # rdwr[t].rd /\ Published(v)
      BY <1>1, <1>12, <2>11 DEF Published
    <3>2. PICK m \in Bin \ {k} : m = v % t_size
      BY <1>14, <2>9, <2>11, <3>1, BinType
    <3>3. CarriesBin(Written, m)
      BY <1>12, <1>14, <2>11, <3>1, <3>2 DEF IInv, Handover
    <3> QED
      BY <2>7, <3>2, <3>3 DEF Counters
  <2> QED
    BY <2>1, <2>5, <2>6, <2>8, <2>10, <2>11 DEF Handover
<1> QED
  BY <1>10, <1>12, <1>13, <1>15, <1>16 DEF IInv

-----------------------------------------------------------------------------
(* Adding one stays within the range of a counter.                         *)
LEMMA PlusOneType ==
  ASSUME NEW v \in Value
  PROVE  Plus(v, 1) \in Value /\ Plus(v, 1) \in Content
<1>1. PICK x \in Nat : x = v + 1 /\ x < 2 * CountRange
  BY Ranges DEF Value
<1>2. x % CountRange = IF x < CountRange THEN x ELSE x - CountRange
  BY <1>1, RemainderOfRange
<1>3. Plus(v, 1) = x % CountRange
  BY <1>1 DEF Plus
<1>4. Plus(v, 1) \in Value
  BY <1>1, <1>2, <1>3, Ranges DEF Value
<1>5. Value \subseteq Content
  BY Ranges DEF Value, Content
<1> QED
  BY <1>4, <1>5

(* The completion of a write or of a read makes one step, and carries on   *)
(* what the thread knows and what the completions before it carried.       *)
LEMMA Completing ==
  ASSUME IInv, NEW t \in Thread, NEW x \in {Read, Written}, NEW i,
         ReadModifyWrite(t, x, i, Plus(Val(x, i), 1), release), Newest(x) < CountRange
  PROVE  /\ MemType(Loc, Content)' /\ Chain'
         /\ Newest(x) \in Nat /\ Newest(x)' = Newest(x) + 1
         /\ \A y \in Loc \ {x} : hist'[y] = hist[y]
         /\ \A j \in 1..(Newest(x) + 1) : Val(x, j)' \in Value /\ Steps(Val(x, j))' = j - 1
         /\ \A u \in Thread : cur[u] \subseteq cur'[u]
         /\ \A m \in Bin : CarriesBin(x, m) \/ KnowsBin(t, m) => CarriesBin(x, m)'
<1>1. x \in Counters /\ x \in Loc /\ x # RdWr
  BY Locations DEF Counters
<1>2. \A j \in 1..Newest(x) : Val(x, j) \in Value /\ Steps(Val(x, j)) = j - 1
  BY DEF IInv, Types, Counts
<1>3. i \in 1..Newest(x)
  BY DEF ReadModifyWrite, Extendable, Readable
<1>4. PICK v \in Content : v = Plus(Val(x, i), 1)
  BY <1>2, <1>3, PlusOneType
<1>5. /\ i = Newest(x)
      /\ Appended(Loc, x) /\ MemType(Loc, Content)' /\ Chain'
      /\ Newest(x) \in Nat /\ Newest(x) >= 1 /\ Newest(x)' = Newest(x) + 1
      /\ Current(x)' = v /\ \A k \in 1..Newest(x) : Val(x, k)' = Val(x, k)
      /\ cur[t] \subseteq hist'[x][Newest(x) + 1].view
      /\ hist[x][Newest(x)].view \subseteq hist'[x][Newest(x) + 1].view
      /\ \A u \in Thread : cur[u] \subseteq cur'[u]
  BY <1>1, <1>4, Exchanging DEF Releasing
<1>6. \A y \in Loc \ {x} : hist'[y] = hist[y]
  BY <1>5 DEF Appended
<1>7. v \in Value /\ Steps(v) = Newest(x)
  BY <1>2, <1>3, <1>4, <1>5, OneMore
<1>8. \A j \in 1..(Newest(x) + 1) : Val(x, j)' \in Value /\ Steps(Val(x, j))' = j - 1
  <2>1. PICK n \in Nat : n = Newest(x) + 1
    BY <1>5
  <2>2. Val(x, n)' = v
    BY <1>5, <2>1 DEF Current, Val
  <2>3. \A j \in 1..n : j \in 1..Newest(x) \/ j = n
    BY <1>5, <2>1
  <2>4. \A j : Steps(Val(x, j))' = Steps(Val(x, j)')
    BY DEF Steps, Plus
  <2>5. \A j \in 1..Newest(x) : Val(x, j)' \in Value /\ Steps(Val(x, j)') = j - 1
    BY <1>2, <1>5
  <2>6. Val(x, n)' \in Value /\ Steps(Val(x, n)') = n - 1
    BY <1>5, <1>7, <2>1, <2>2
  <2> QED
    BY <2>1, <2>3, <2>4, <2>5, <2>6
<1>9. ASSUME NEW m \in Bin, CarriesBin(x, m) \/ KnowsBin(t, m)
      PROVE  CarriesBin(x, m)'
  <2>1. hist'[Element(m)] = hist[Element(m)] /\ hist'[ReadsOf(m)] = hist[ReadsOf(m)]
    BY <1>1, <1>6, Locations
  <2>2. \A y : Carries(hist[x][Newest(x)].view, y) => Carries(hist'[x][Newest(x) + 1].view, y)
    BY <1>5 DEF Carries
  <2>3. \A y : Knows(t, y) => Carries(hist'[x][Newest(x) + 1].view, y)
    BY <1>5 DEF Carries, Knows
  <2>4. /\ Carries(hist'[x][Newest(x) + 1].view, Element(m))
        /\ Carries(hist'[x][Newest(x) + 1].view, ReadsOf(m))
    BY <1>9, <2>2, <2>3 DEF CarriesBin, KnowsBin
  <2> QED
    BY <1>5, <2>1, <2>4 DEF CarriesBin, Carries, Newest
<1> QED
  BY <1>5, <1>6, <1>8, <1>9

(* As long as the bins are left alone their holders know them.             *)
LEMMA HoldersKnow ==
  ASSUME IInv, \A u \in Thread : cur[u] \subseteq cur'[u],
         \A y \in Loc \ Counters : hist'[y] = hist[y],
         \A u \in Thread : pc'[u] \in {"write", "publish"} =>
                             pc[u] \in {"write", "publish"} /\ rdwr'[u] = rdwr[u],
         \A u \in Thread : pc'[u] \in {"read", "consume"} =>
                             pc[u] \in {"read", "consume"} /\ rdwr'[u] = rdwr[u]
  PROVE  /\ \A u \in Thread, x \in Loc : <<x, 1>> \in cur'[u]
         /\ \A u \in Thread : pc'[u] \in {"write", "publish"} => KnowsBin(u, WriteBin(u))'
         /\ \A u \in Thread : pc'[u] \in {"read", "consume"} => KnowsBin(u, ReadBin(u))'
<1>1. \A u \in Thread, x \in Loc : <<x, 1>> \in cur'[u]
  BY DEF IInv, Handover
<1>2. \A u \in Thread, m \in Bin : KnowsBin(u, m) => KnowsBin(u, m)'
  BY StillKnown, Locations
<1>3. ASSUME NEW u \in Thread, pc'[u] \in {"write", "publish"}
      PROVE  KnowsBin(u, WriteBin(u))'
  <2>1. PICK m \in Bin : m = WriteBin(u)
    BY Numbers, BinType DEF WriteBin
  <2>2. m = WriteBin(u)'
    BY <1>3, <2>1 DEF WriteBin
  <2>3. KnowsBin(u, m)'
    BY <1>2, <1>3, <2>1 DEF IInv, Handover
  <2> QED
    BY <2>2, <2>3 DEF KnowsBin, Knows
<1>4. ASSUME NEW u \in Thread, pc'[u] \in {"read", "consume"}
      PROVE  KnowsBin(u, ReadBin(u))'
  <2>1. PICK m \in Bin : m = ReadBin(u)
    BY Numbers, BinType DEF ReadBin
  <2>2. m = ReadBin(u)'
    BY <1>4, <2>1 DEF ReadBin
  <2>3. KnowsBin(u, m)'
    BY <1>2, <1>4, <2>1 DEF IInv, Handover
  <2> QED
    BY <2>2, <2>3 DEF KnowsBin, Knows
<1> QED
  BY <1>1, <1>3, <1>4

(* write_publish(): from here on a reader may be granted the bin.          *)
LEMMA PublishStep ==
  ASSUME IInv, NEW t \in Thread, Publish(t)
  PROVE  IInv'
<1>1. /\ pc[t] = "publish" /\ pc' = [pc EXCEPT ![t] = "idle"]
      /\ UNCHANGED <<rdwr, writes, reads, got>> /\ t \in Writing
  BY DEF Publish, Goto, MoveTo, Writing
<1>2. PICK i : ReadModifyWrite(t, Written, i, Plus(Val(Written, i), 1), release)
  BY DEF Publish, Increment, OrderPublish
<1>3. /\ pc'[t] = "idle" /\ \A u \in Thread \ {t} : pc'[u] = pc[u]
      /\ pc' \in [Thread -> Label]
  BY <1>1 DEF IInv, Types, Label
<1>4. /\ Writing' = Writing \ {t} /\ Reading' = Reading /\ Claiming' = Claiming
      /\ t \notin Reading
  BY <1>1, <1>3 DEF Writing, Reading, Claiming
<1>5. /\ \A u : Wr(u)' = Wr(u) /\ Rd(u)' = Rd(u)
      /\ OpenReads' = OpenReads /\ OpenWrites' = OpenWrites \ {Wr(t)}
  <2>1. \A u : Wr(u)' = Wr(u) /\ Rd(u)' = Rd(u)
    BY <1>1 DEF Wr, Rd
  <2>2. \A u \in Writing : u # t => Wr(u) # Wr(t)
    BY <1>1 DEF IInv, Claims
  <2> QED
    BY <1>4, <2>1, <2>2 DEF OpenReads, OpenWrites
<1>6. /\ IsFiniteSet(OpenWrites) /\ Cardinality(OpenWrites) \in Nat
      /\ Wr(t) \in OpenWrites
      /\ Cardinality(OpenWrites') = Cardinality(OpenWrites) - 1
      /\ Cardinality(OpenWrites') \in Nat
  <2>1. IsFiniteSet(OpenWrites) /\ Cardinality(OpenWrites) \in Nat /\ Wr(t) \in OpenWrites
    BY <1>1, OpenCounts
  <2>2. IsFiniteSet(OpenWrites') /\ Cardinality(OpenWrites') = Cardinality(OpenWrites) - 1
    BY <1>5, <2>1, FS_RemoveElement
  <2> QED
    BY <2>1, <2>2, FS_CardinalityType
<1>7. Newest(Written) < CountRange
  <2>1. Newest(Written) \in Nat
    BY Lengths, Locations DEF IInv, Counters
  <2>2. Newest(Written) - 1 + Cardinality(OpenWrites) = W
    BY DEF IInv, Counts
  <2> QED
    BY <1>6, <2>1, <2>2, Numbers
<1>8. /\ MemType(Loc, Content)' /\ Chain'
      /\ Newest(Written) \in Nat /\ Newest(Written)' = Newest(Written) + 1
      /\ \A y \in Loc \ {Written} : hist'[y] = hist[y]
      /\ \A j \in 1..(Newest(Written) + 1) :
           Val(Written, j)' \in Value /\ Steps(Val(Written, j))' = j - 1
      /\ \A u \in Thread : cur[u] \subseteq cur'[u]
      /\ \A m \in Bin : CarriesBin(Written, m) \/ KnowsBin(t, m) => CarriesBin(Written, m)'
  BY <1>2, <1>7, Completing
<1>9. /\ \A c \in {RdWr, Read} : /\ Newest(c)' = Newest(c) /\ Current(c)' = Current(c)
                                 /\ hist'[c] = hist[c]
                                 /\ \A j : Val(c, j)' = Val(c, j)
      /\ \A m \in Bin : Cell(m)' = Cell(m)
      /\ \A y \in Loc \ Counters : hist'[y] = hist[y]
  <2>1. RdWr \in Loc \ {Written} /\ Read \in Loc \ {Written}
    BY Locations DEF Counters
  <2>2. \A m \in Bin : hist'[Element(m)] = hist[Element(m)]
    BY <1>8, Locations DEF Counters
  <2> QED
    BY <1>8, <2>1, <2>2 DEF Newest, Current, Val, Cell, Counters
<1>10. W' = W /\ R' = R /\ \A n : Unread(n)' <=> Unread(n)
  BY <1>5, <1>9 DEF W, R, Steps, Plus, Unread
<1>11. Types'
  BY <1>1, <1>3, <1>8, <1>9 DEF IInv, Types
<1>12. Counts'
  <2>1. \A j \in 1..Newest(Read)' : Steps(Val(Read, j))' = j - 1
    BY <1>9 DEF IInv, Counts, Steps, Plus
  <2>2. Newest(Written)' - 1 + Cardinality(OpenWrites') = W
    BY <1>6, <1>8 DEF IInv, Counts
  <2> QED
    BY <1>1, <1>4, <1>5, <1>8, <1>9, <1>10, <2>1, <2>2 DEF IInv, Counts
<1>13. Claims'
  <2>1. /\ \A u \in Thread : pc'[u] = "claimBin" => ~Full(rdwr'[u])
        /\ \A u \in Thread : pc'[u] = "claimItem" => ~Empty(rdwr'[u])
    BY <1>1, <1>3 DEF IInv, Claims
  <2> QED
    BY <1>4, <1>5, <1>10, <2>1 DEF IInv, Claims
<1>14. Phases'
  <2>1. \A n : (ReadsWait(n) => ReadsWait(n)') /\ (WritesWait(n) => WritesWait(n)')
    BY <1>1, <1>3, <1>4, <1>5 DEF ReadsWait, WritesWait, Reading, Writing
  <2> QED
    BY <1>3, <1>4, <1>5, <1>10, <2>1 DEF IInv, Phases, Writing, Reading
<1>15. /\ \A n : Stored(n)' <=> Stored(n)
       /\ \A v \in Value : Holding(v)' <=> Holding(v)
  BY <1>1, <1>3, <1>4, <1>5, <1>9, <1>10, BinType DEF Stored, Holding, Writing
<1>16. Window'
  BY <1>1, <1>3, <1>9, <1>10, <1>15 DEF IInv, Window
<1>17. Handover'
  <2>1. /\ \A u \in Thread, x \in Loc : <<x, 1>> \in cur'[u]
        /\ \A u \in Thread : pc'[u] \in {"write", "publish"} => KnowsBin(u, WriteBin(u))'
        /\ \A u \in Thread : pc'[u] \in {"read", "consume"} => KnowsBin(u, ReadBin(u))'
    BY <1>1, <1>3, <1>8, <1>9, HoldersKnow
  <2>2. \A m \in Bin : CarriesBin(Read, m) => CarriesBin(Read, m)'
    BY <1>9, StillCarried, Locations
  <2>3. ASSUME NEW v \in Value, Holding(v), Unread(Steps(v)), Published(v)'
        PROVE  CarriesBin(Written, v % t_size)'
    <3>1. PICK m \in Bin : m = v % t_size
      BY BinType
    <3>2. CASE v = rdwr[t].wr
      <4>1. KnowsBin(t, m)
        BY <1>1, <3>1, <3>2 DEF IInv, Handover, WriteBin
      <4> QED
        BY <1>8, <3>1, <4>1
    <3>3. CASE v # rdwr[t].wr
      <4>1. Published(v)
        BY <1>1, <1>3, <2>3, <3>3 DEF Published
      <4>2. CarriesBin(Written, m)
        BY <2>3, <3>1, <4>1 DEF IInv, Handover
      <4> QED
        BY <1>8, <3>1, <4>2
    <3> QED
      BY <3>2, <3>3
  <2> QED
    BY <1>9, <1>10, <1>15, <2>1, <2>2, <2>3, BinType DEF IInv, Handover
<1> QED
  BY <1>8, <1>11, <1>12, <1>13, <1>14, <1>16, <1>17 DEF IInv

(* read_consume(): from here on a writer may be granted the bin.           *)
LEMMA ConsumeStep ==
  ASSUME IInv, NEW t \in Thread, Consume(t)
  PROVE  IInv'
<1>1. /\ pc[t] = "consume" /\ pc' = [pc EXCEPT ![t] = "idle"]
      /\ UNCHANGED <<rdwr, writes, reads, got>> /\ t \in Reading
  BY DEF Consume, Goto, MoveTo, Reading
<1>2. PICK i : ReadModifyWrite(t, Read, i, Plus(Val(Read, i), 1), release)
  BY DEF Consume, Increment, OrderConsume
<1>3. /\ pc'[t] = "idle" /\ \A u \in Thread \ {t} : pc'[u] = pc[u]
      /\ pc' \in [Thread -> Label]
  BY <1>1 DEF IInv, Types, Label
<1>4. /\ Reading' = Reading \ {t} /\ Writing' = Writing /\ Claiming' = Claiming
      /\ t \notin Writing
  BY <1>1, <1>3 DEF Writing, Reading, Claiming
<1>5. /\ \A u : Wr(u)' = Wr(u) /\ Rd(u)' = Rd(u)
      /\ OpenWrites' = OpenWrites /\ OpenReads' = OpenReads \ {Rd(t)}
  <2>1. \A u : Wr(u)' = Wr(u) /\ Rd(u)' = Rd(u)
    BY <1>1 DEF Wr, Rd
  <2>2. \A u \in Reading : u # t => Rd(u) # Rd(t)
    BY <1>1 DEF IInv, Claims
  <2> QED
    BY <1>4, <2>1, <2>2 DEF OpenReads, OpenWrites
<1>6. /\ IsFiniteSet(OpenReads) /\ Cardinality(OpenReads) \in Nat
      /\ Rd(t) \in OpenReads /\ Rd(t) \in Nat /\ Rd(t) < R
      /\ Cardinality(OpenReads') = Cardinality(OpenReads) - 1
      /\ Cardinality(OpenReads') \in Nat
  <2>1. /\ IsFiniteSet(OpenReads) /\ Cardinality(OpenReads) \in Nat
        /\ Rd(t) \in OpenReads /\ Rd(t) \in Nat /\ Rd(t) < R
    BY <1>1, OpenCounts
  <2>2. IsFiniteSet(OpenReads') /\ Cardinality(OpenReads') = Cardinality(OpenReads) - 1
    BY <1>5, <2>1, FS_RemoveElement
  <2> QED
    BY <2>1, <2>2, FS_CardinalityType
<1>7. Newest(Read) < CountRange
  <2>1. Newest(Read) \in Nat
    BY Lengths, Locations DEF IInv, Counters
  <2>2. Newest(Read) - 1 + Cardinality(OpenReads) = R
    BY DEF IInv, Counts
  <2> QED
    BY <1>6, <2>1, <2>2, Numbers
<1>8. /\ MemType(Loc, Content)' /\ Chain'
      /\ Newest(Read) \in Nat /\ Newest(Read)' = Newest(Read) + 1
      /\ \A y \in Loc \ {Read} : hist'[y] = hist[y]
      /\ \A j \in 1..(Newest(Read) + 1) :
           Val(Read, j)' \in Value /\ Steps(Val(Read, j))' = j - 1
      /\ \A u \in Thread : cur[u] \subseteq cur'[u]
      /\ \A m \in Bin : CarriesBin(Read, m) \/ KnowsBin(t, m) => CarriesBin(Read, m)'
  BY <1>2, <1>7, Completing
<1>9. /\ \A c \in {RdWr, Written} : /\ Newest(c)' = Newest(c) /\ Current(c)' = Current(c)
                                    /\ hist'[c] = hist[c]
                                    /\ \A j : Val(c, j)' = Val(c, j)
      /\ \A m \in Bin : Cell(m)' = Cell(m)
      /\ \A y \in Loc \ Counters : hist'[y] = hist[y]
  <2>1. RdWr \in Loc \ {Read} /\ Written \in Loc \ {Read}
    BY Locations DEF Counters
  <2>2. \A m \in Bin : hist'[Element(m)] = hist[Element(m)]
    BY <1>8, Locations DEF Counters
  <2> QED
    BY <1>8, <2>1, <2>2 DEF Newest, Current, Val, Cell, Counters
<1>10. W' = W /\ R' = R /\ \A n : Unread(n)' <=> Unread(n) /\ n # Rd(t)
  <2>1. W' = W /\ R' = R
    BY <1>9 DEF W, R, Steps, Plus
  <2>2. R \in Nat /\ ~(R <= Rd(t))
    BY <1>6, Numbers
  <2> QED
    BY <1>5, <2>1, <2>2 DEF Unread
<1>11. Types'
  BY <1>1, <1>3, <1>8, <1>9 DEF IInv, Types
<1>12. Counts'
  <2>1. \A j \in 1..Newest(Written)' : Steps(Val(Written, j))' = j - 1
    BY <1>9 DEF IInv, Counts, Steps, Plus
  <2>2. Newest(Read)' - 1 + Cardinality(OpenReads') = R
    BY <1>6, <1>8 DEF IInv, Counts
  <2> QED
    BY <1>1, <1>4, <1>5, <1>8, <1>9, <1>10, <2>1, <2>2 DEF IInv, Counts
<1>13. Claims'
  <2>1. /\ \A u \in Thread : pc'[u] = "claimBin" => ~Full(rdwr'[u])
        /\ \A u \in Thread : pc'[u] = "claimItem" => ~Empty(rdwr'[u])
    BY <1>1, <1>3 DEF IInv, Claims
  <2> QED
    BY <1>4, <1>5, <1>10, <2>1 DEF IInv, Claims
<1>14. Phases'
  <2>1. \A n : (ReadsWait(n) => ReadsWait(n)') /\ (WritesWait(n) => WritesWait(n)')
    BY <1>1, <1>3, <1>4, <1>5 DEF ReadsWait, WritesWait, Reading, Writing
  <2> QED
    BY <1>3, <1>4, <1>5, <1>10, <2>1 DEF IInv, Phases, Writing, Reading
<1>15. /\ \A n : Stored(n)' <=> Stored(n)
       /\ \A v \in Value : Holding(v)' <=> Holding(v)
  BY <1>1, <1>3, <1>4, <1>5, <1>9, <1>10, BinType DEF Stored, Holding, Writing
<1>16. Window'
  BY <1>1, <1>3, <1>9, <1>10, <1>15 DEF IInv, Window
<1>17. Handover'
  <2>1. /\ \A u \in Thread, x \in Loc : <<x, 1>> \in cur'[u]
        /\ \A u \in Thread : pc'[u] \in {"write", "publish"} => KnowsBin(u, WriteBin(u))'
        /\ \A u \in Thread : pc'[u] \in {"read", "consume"} => KnowsBin(u, ReadBin(u))'
    BY <1>1, <1>3, <1>8, <1>9, HoldersKnow
  <2>2. \A m \in Bin : CarriesBin(Written, m) => CarriesBin(Written, m)'
    BY <1>9, StillCarried, Locations
  <2>3. ASSUME NEW v \in Value, Holding(v), ~Unread(Steps(v))'
        PROVE  CarriesBin(Read, v % t_size)'
    <3>1. PICK m \in Bin : m = v % t_size
      BY BinType
    <3>2. CASE Steps(v) = Rd(t)
      <4>1. v = rdwr[t].rd
        BY <3>2, Numbers, StepsType DEF Rd
      <4>2. KnowsBin(t, m)
        BY <1>1, <3>1, <4>1 DEF IInv, Handover, ReadBin
      <4> QED
        BY <1>8, <3>1, <4>2
    <3>3. CASE Steps(v) # Rd(t)
      <4>1. ~Unread(Steps(v))
        BY <1>10, <2>3, <3>3 DEF Steps, Plus
      <4>2. CarriesBin(Read, m)
        BY <2>3, <3>1, <4>1 DEF IInv, Handover
      <4> QED
        BY <1>8, <3>1, <4>2
    <3> QED
      BY <3>2, <3>3
  <2>4. ASSUME NEW v \in Value, Holding(v), Unread(Steps(v))', Published(v)'
        PROVE  CarriesBin(Written, v % t_size)'
    <3>1. Unread(Steps(v)) /\ Steps(v) # Rd(t)
      BY <1>10, <2>4 DEF Steps, Plus
    <3>2. Published(v)
      BY <1>1, <1>3, <2>4, <3>1 DEF Published, Rd
    <3> QED
      BY <2>2, <2>4, <3>1, <3>2, BinType DEF IInv, Handover
  <2>5. \A m \in Bin : Cell(m)' = 0 => CarriesBin(Read, m)'
    BY <1>8, <1>9 DEF IInv, Handover
  <2> QED
    BY <1>15, <2>1, <2>3, <2>4, <2>5 DEF Handover
<1> QED
  BY <1>8, <1>11, <1>12, <1>13, <1>14, <1>16, <1>17 DEF IInv

-----------------------------------------------------------------------------
(* A claim is made by a thread that has seen m_rdwr as it is, and changes  *)
(* nothing else in the memory.                                             *)
LEMMA ClaimMade ==
  ASSUME IInv, NEW t \in Thread, NEW v \in Pair, NEW ord, ClaimWith(t, v, ord)
  PROVE  /\ rdwr[t] = Current(RdWr) /\ Wr(t) = W /\ Rd(t) = R
         /\ MemType(Loc, Content)' /\ Chain' /\ Current(RdWr)' = v
         /\ \A j \in 1..Newest(RdWr)' : Val(RdWr, j)' \in Pair
         /\ \A y \in Loc \ {RdWr} : hist'[y] = hist[y]
         /\ \A u \in Thread : cur[u] \subseteq cur'[u]
         /\ \A c \in {Read, Written} : /\ Newest(c)' = Newest(c)
                                       /\ \A j : Val(c, j)' = Val(c, j)
         /\ \A m \in Bin : Cell(m)' = Cell(m)
         /\ \A n \in Value : Holding(n)' <=> Holding(n)
         /\ \A c \in {Read, Written}, m \in Bin : CarriesBin(c, m) => CarriesBin(c, m)'
<1>1. PICK i : Val(RdWr, i) = rdwr[t] /\ ReadModifyWrite(t, RdWr, i, v, ord)
  BY DEF ClaimWith
<1>2. v \in Content /\ RdWr \in Counters
  BY DEF Content, Counters
<1>3. /\ i = Newest(RdWr)
      /\ Appended(Loc, RdWr) /\ MemType(Loc, Content)' /\ Chain'
      /\ Newest(RdWr) \in Nat /\ Newest(RdWr) >= 1 /\ Newest(RdWr)' = Newest(RdWr) + 1
      /\ Current(RdWr)' = v /\ \A k \in 1..Newest(RdWr) : Val(RdWr, k)' = Val(RdWr, k)
      /\ \A u \in Thread : cur[u] \subseteq cur'[u]
  BY <1>1, <1>2, Exchanging
<1>4. rdwr[t] = Current(RdWr) /\ Wr(t) = W /\ Rd(t) = R
  BY <1>1, <1>3 DEF Current, Wr, Rd, W, R
<1>5. \A y \in Loc \ {RdWr} : hist'[y] = hist[y]
  BY <1>3 DEF Appended
<1>6. \A j \in 1..Newest(RdWr)' : Val(RdWr, j)' \in Pair
  <2>1. PICK n \in Nat : n = Newest(RdWr) + 1
    BY <1>3
  <2>2. Val(RdWr, n)' \in Pair
    BY <1>3, <2>1 DEF Current, Val
  <2>3. \A j \in 1..n : j \in 1..Newest(RdWr) \/ j = n
    BY <1>3, <2>1
  <2>4. \A j \in 1..Newest(RdWr) : Val(RdWr, j)' \in Pair
    BY <1>3 DEF IInv, Types
  <2> QED
    BY <1>3, <2>1, <2>2, <2>3, <2>4
<1>7. \A c \in {Read, Written} : hist'[c] = hist[c]
  BY <1>5, Locations DEF Counters
<1>8. \A m \in Bin : hist'[Element(m)] = hist[Element(m)] /\ hist'[ReadsOf(m)] = hist[ReadsOf(m)]
  BY <1>5, Locations DEF Counters
<1>9. \A m \in Bin : Cell(m)' = Cell(m)
  BY <1>8 DEF Cell, Current, Val, Newest
<1>10. \A n \in Value : Holding(n)' <=> Holding(n)
  BY <1>9, BinType DEF Holding
<1>11. \A c \in {Read, Written}, m \in Bin : CarriesBin(c, m) => CarriesBin(c, m)'
  BY <1>7, <1>8, StillCarried
<1>12. \A c \in {Read, Written} : Newest(c)' = Newest(c) /\ \A j : Val(c, j)' = Val(c, j)
  BY <1>7 DEF Newest, Val
<1> QED
  BY <1>3, <1>4, <1>5, <1>6, <1>9, <1>10, <1>11, <1>12

(* write_prepare() claims the next bin: there is one, and the writer will  *)
(* wait for all the reads that have been claimed before.                   *)
LEMMA PrepareClaimStep ==
  ASSUME IInv, NEW t \in Thread, Prepare_Claim(t)
  PROVE  IInv'
<1>1. /\ pc[t] = "claimBin" /\ pc' = [pc EXCEPT ![t] = "awaitReads"]
      /\ UNCHANGED <<rdwr, writes, reads, got>>
      /\ ClaimWith(t, [rdwr[t] EXCEPT !.wr = Plus(@, 1)], OrderPrepareCAS)
  BY DEF Prepare_Claim, Goto, MoveTo
<1>2. rdwr[t] \in Pair /\ rdwr[t].wr \in Value /\ rdwr[t].rd \in Value
  BY Numbers
<1>3. PICK v \in Pair : /\ v = [rdwr[t] EXCEPT !.wr = Plus(@, 1)]
                        /\ v.wr = Plus(rdwr[t].wr, 1) /\ v.rd = rdwr[t].rd
  <2>1. Plus(rdwr[t].wr, 1) \in Value
    BY <1>2, PlusOneType
  <2>2. [rdwr[t] EXCEPT !.wr = Plus(@, 1)] \in Pair
    BY <1>2, <2>1 DEF Pair
  <2>3. /\ [rdwr[t] EXCEPT !.wr = Plus(@, 1)].wr = Plus(rdwr[t].wr, 1)
        /\ [rdwr[t] EXCEPT !.wr = Plus(@, 1)].rd = rdwr[t].rd
    BY <1>2 DEF Pair
  <2> QED
    BY <2>2, <2>3
<1>4. /\ rdwr[t] = Current(RdWr) /\ Wr(t) = W /\ Rd(t) = R
      /\ MemType(Loc, Content)' /\ Chain' /\ Current(RdWr)' = v
      /\ \A j \in 1..Newest(RdWr)' : Val(RdWr, j)' \in Pair
      /\ \A y \in Loc \ {RdWr} : hist'[y] = hist[y]
      /\ \A u \in Thread : cur[u] \subseteq cur'[u]
      /\ \A c \in {Read, Written} : /\ Newest(c)' = Newest(c)
                                    /\ \A j : Val(c, j)' = Val(c, j)
      /\ \A m \in Bin : Cell(m)' = Cell(m)
      /\ \A n \in Value : Holding(n)' <=> Holding(n)
      /\ \A c \in {Read, Written}, m \in Bin : CarriesBin(c, m) => CarriesBin(c, m)'
  BY <1>1, <1>3, ClaimMade
<1>5. /\ pc'[t] = "awaitReads" /\ \A u \in Thread \ {t} : pc'[u] = pc[u]
      /\ pc' \in [Thread -> Label]
  BY <1>1 DEF IInv, Types, Label
<1>6. /\ Writing' = Writing \cup {t} /\ Reading' = Reading /\ Claiming' = Claiming \ {t}
      /\ t \notin Writing /\ t \notin Reading /\ t \in Claiming
  BY <1>1, <1>5 DEF Writing, Reading, Claiming
<1>7. /\ IsFiniteSet(Claiming') /\ Cardinality(Claiming') \in Nat
      /\ Cardinality(Claiming') = Cardinality(Claiming) - 1
  <2>1. IsFiniteSet(Claiming)
    BY DEF IInv, Counts
  <2>2. IsFiniteSet(Claiming') /\ Cardinality(Claiming') = Cardinality(Claiming) - 1
    BY <1>6, <2>1, FS_RemoveElement
  <2> QED
    BY <2>2, FS_CardinalityType
<1>8. /\ W \in Nat /\ R \in Nat /\ R <= W /\ W < R + t_size /\ W + 1 < CountRange
      /\ t_size \in Nat
  <2>1. W \in Nat /\ R \in Nat /\ R <= W /\ W <= R + t_size /\ t_size \in Nat
    BY Numbers DEF IInv, Counts
  <2>2. ~Full(rdwr[t])
    BY <1>1 DEF IInv, Claims
  <2>3. W # R + t_size
    BY <1>2, <1>4, <2>2, FullEmpty DEF Wr, Rd
  <2>4. W + 1 < CountRange
    BY <1>7, <2>1, Numbers
  <2> QED
    BY <2>1, <2>3, <2>4
<1>9. W' = W + 1 /\ R' = R
  <2>1. W' = Steps(v.wr) /\ R' = Steps(v.rd)
    BY <1>4 DEF W, R, Steps, Plus
  <2> QED
    BY <1>2, <1>3, <1>4, <1>8, <2>1, OneMore DEF Wr, Rd
<1>10. /\ \A u : Wr(u)' = Wr(u) /\ Rd(u)' = Rd(u)
       /\ OpenReads' = OpenReads /\ OpenWrites' = OpenWrites \cup {W}
  <2>1. \A u : Wr(u)' = Wr(u) /\ Rd(u)' = Rd(u)
    BY <1>1 DEF Wr, Rd
  <2> QED
    BY <1>4, <1>6, <2>1 DEF OpenReads, OpenWrites
<1>11. /\ \A u \in Writing : Wr(u) < W /\ Wr(u) \in Nat /\ Rd(u) <= R
       /\ \A u \in Reading : Rd(u) < R /\ Rd(u) \in Nat /\ Wr(u) <= W /\ Wr(u) \in Nat
  BY OpenCounts DEF IInv, Claims
<1>12. Types'
  BY <1>1, <1>4, <1>5 DEF IInv, Types
<1>13. Counts'
  <2>1. OpenReads' \subseteq 0..(R' - 1) /\ OpenWrites' \subseteq 0..(W' - 1)
    <3>1. OpenReads \subseteq 0..(R - 1) /\ OpenWrites \subseteq 0..(W - 1)
      BY DEF IInv, Counts
    <3> QED
      BY <1>8, <1>9, <1>10, <3>1
  <2>2. Cardinality(OpenWrites') = Cardinality(OpenWrites) + 1
    <3>1. W \notin OpenWrites
      BY <1>8, <1>11 DEF OpenWrites
    <3> QED
      BY <1>10, <3>1, OpenCounts, FS_AddElement
  <2>3. Newest(Written)' - 1 + Cardinality(OpenWrites') = W'
    <3>1. Newest(Written) \in Nat /\ Newest(Written) - 1 + Cardinality(OpenWrites) = W
      BY Lengths, Locations DEF IInv, Counts, Counters
    <3> QED
      BY <1>4, <1>9, <2>2, <3>1, OpenCounts
  <2>4. Newest(Read)' - 1 + Cardinality(OpenReads') = R'
    BY <1>4, <1>9, <1>10 DEF IInv, Counts
  <2>5. \A x \in {Read, Written} : \A i \in 1..Newest(x)' : Steps(Val(x, i))' = i - 1
    BY <1>4 DEF IInv, Counts, Steps, Plus
  <2>6. W' + Cardinality(Claiming') <= writes'
    BY <1>1, <1>7, <1>8, <1>9, Numbers
  <2> QED
    BY <1>7, <1>8, <1>9, <2>1, <2>3, <2>4, <2>5, <2>6 DEF Counts
<1>14. Claims'
  <2>1. /\ \A u \in Thread : pc'[u] = "claimBin" => ~Full(rdwr'[u])
        /\ \A u \in Thread : pc'[u] = "claimItem" => ~Empty(rdwr'[u])
    BY <1>1, <1>5 DEF IInv, Claims
  <2>2. \A u \in Writing' : Rd(u) <= Wr(u) /\ Wr(u) < Rd(u) + t_size /\ Rd(u) <= R
    BY <1>4, <1>6, <1>8 DEF IInv, Claims
  <2>3. \A u \in Reading : Rd(u) < Wr(u) /\ Wr(u) <= Rd(u) + t_size /\ Wr(u) <= W + 1
    <3>1. \A u \in Reading : Rd(u) < Wr(u) /\ Wr(u) <= Rd(u) + t_size
      BY DEF IInv, Claims
    <3> QED
      BY <1>8, <1>11, <3>1
  <2>4. \A u, w \in Writing' : (Wr(u) = Wr(w) => u = w) /\ (Wr(u) < Wr(w) => Rd(u) <= Rd(w))
    <3>1. \A u, w \in Writing : (Wr(u) = Wr(w) => u = w) /\ (Wr(u) < Wr(w) => Rd(u) <= Rd(w))
      BY DEF IInv, Claims
    <3> QED
      BY <1>4, <1>6, <1>8, <1>11, <3>1
  <2>5. \A u \in Writing', w \in Reading : Rd(u) <= Rd(w) <=> Wr(u) < Wr(w)
    <3>1. \A w \in Reading : ~(R <= Rd(w)) /\ ~(W < Wr(w))
      BY <1>8, <1>11
    <3> QED
      BY <1>4, <1>6, <3>1 DEF IInv, Claims
  <2>6. \A u, w \in Reading : (Rd(u) = Rd(w) => u = w) /\ (Rd(u) < Rd(w) => Wr(u) <= Wr(w))
    BY DEF IInv, Claims
  <2> QED
    BY <1>6, <1>9, <1>10, <2>1, <2>2, <2>3, <2>4, <2>5, <2>6 DEF Claims
<1>15. Phases'
  <2>1. \A n : ReadsWait(n) => ReadsWait(n)'
    BY <1>5, <1>6, <1>10 DEF ReadsWait, Reading
  <2>2. \A n : WritesWait(n) \/ n = W => WritesWait(n)'
    <3>1. \A u \in Writing : pc'[u] = pc[u]
      BY <1>5, <1>6 DEF Writing
    <3> QED
      BY <1>4, <1>5, <1>6, <1>10, <3>1 DEF WritesWait
  <2>3. ASSUME NEW u \in Writing', NEW n \in Rd(u)..(R - 1)
        PROVE  ReadsWait(n)'
    <3>1. u # t
      BY <1>4, <1>8, <2>3
    <3> QED
      BY <1>6, <2>1, <2>3, <3>1 DEF IInv, Phases
  <2>4. ASSUME NEW u \in Reading, NEW n \in Wr(u)..W
        PROVE  WritesWait(n)'
    <3>1. n = W \/ n \in Wr(u)..(W - 1)
      BY <1>8, <1>11, <2>4
    <3> QED
      BY <2>2, <3>1 DEF IInv, Phases
  <2>5. (W + 1) - 1 = W
    BY <1>8
  <2>6. ASSUME NEW u \in Writing', NEW w \in Reading
        PROVE  /\ pc'[u] \in {"write", "publish"} => Rd(u) <= Rd(w)
               /\ pc'[w] \in {"read", "consume"} => Wr(w) <= Wr(u)
    <3>1. pc'[w] = pc[w] /\ w # t
      BY <1>5, <1>6 DEF Reading
    <3>2. CASE u = t
      BY <1>4, <1>5, <1>11, <3>2
    <3>3. CASE u # t
      <4>1. pc'[u] = pc[u] /\ u \in Writing
        BY <1>5, <1>6, <3>3 DEF Writing
      <4> QED
        BY <3>1, <4>1 DEF IInv, Phases
    <3> QED
      BY <3>2, <3>3
  <2> QED
    BY <1>6, <1>9, <1>10, <2>3, <2>4, <2>5, <2>6 DEF Phases
<1>16. \A n \in Nat : Stored(n)' <=> Stored(n)
  <2>1. \A u \in Writing : pc'[u] = pc[u]
    BY <1>5, <1>6 DEF Writing
  <2>2. \A n \in Nat : n < W + 1 <=> n < W \/ n = W
    BY <1>8
  <2>3. ~(W < W)
    BY <1>8
  <2> QED
    BY <1>4, <1>5, <1>6, <1>9, <1>10, <2>1, <2>2, <2>3 DEF Stored
<1>17. \A n : Unread(n)' <=> Unread(n)
  BY <1>9, <1>10 DEF Unread
<1>18. Window'
  <2>1. \A n \in Value : Stored(Steps(n))' <=> Stored(Steps(n))
    BY <1>16, StepsType DEF Steps, Plus
  <2>2. \A n \in Value : Unread(Steps(n))' <=> Unread(Steps(n))
    BY <1>17 DEF Steps, Plus
  <2> QED
    BY <1>1, <1>4, <1>5, <2>1, <2>2 DEF IInv, Window, Steps, Plus
<1>19. Handover'
  <2>1. /\ \A u \in Thread, x \in Loc : <<x, 1>> \in cur'[u]
        /\ \A u \in Thread : pc'[u] \in {"write", "publish"} => KnowsBin(u, WriteBin(u))'
        /\ \A u \in Thread : pc'[u] \in {"read", "consume"} => KnowsBin(u, ReadBin(u))'
    BY <1>1, <1>4, <1>5, HoldersKnow DEF Counters
  <2>2. \A n : Published(n)' => Published(n)
    BY <1>1, <1>5 DEF Published
  <2>3. \A n \in Value : Unread(Steps(n))' <=> Unread(Steps(n))
    BY <1>17 DEF Steps, Plus
  <2> QED
    BY <1>4, <2>1, <2>2, <2>3, BinType DEF IInv, Handover
<1> QED
  BY <1>4, <1>12, <1>13, <1>14, <1>15, <1>18, <1>19 DEF IInv

(* read_fetch() claims the next item: there is one, and the reader will    *)
(* wait for all the writes that have been claimed before.                  *)
LEMMA FetchClaimStep ==
  ASSUME IInv, NEW t \in Thread, Fetch_Claim(t)
  PROVE  IInv'
<1>1. /\ pc[t] = "claimItem" /\ pc' = [pc EXCEPT ![t] = "awaitWrites"]
      /\ UNCHANGED <<rdwr, writes, reads, got>>
      /\ ClaimWith(t, [rdwr[t] EXCEPT !.rd = Plus(@, 1)], OrderFetchCAS)
  BY DEF Fetch_Claim, Goto, MoveTo
<1>2. rdwr[t] \in Pair /\ rdwr[t].wr \in Value /\ rdwr[t].rd \in Value
  BY Numbers
<1>3. PICK v \in Pair : /\ v = [rdwr[t] EXCEPT !.rd = Plus(@, 1)]
                        /\ v.rd = Plus(rdwr[t].rd, 1) /\ v.wr = rdwr[t].wr
  <2>1. Plus(rdwr[t].rd, 1) \in Value
    BY <1>2, PlusOneType
  <2>2. [rdwr[t] EXCEPT !.rd = Plus(@, 1)] \in Pair
    BY <1>2, <2>1 DEF Pair
  <2>3. /\ [rdwr[t] EXCEPT !.rd = Plus(@, 1)].rd = Plus(rdwr[t].rd, 1)
        /\ [rdwr[t] EXCEPT !.rd = Plus(@, 1)].wr = rdwr[t].wr
    BY <1>2 DEF Pair
  <2> QED
    BY <2>2, <2>3
<1>4. /\ rdwr[t] = Current(RdWr) /\ Wr(t) = W /\ Rd(t) = R
      /\ MemType(Loc, Content)' /\ Chain' /\ Current(RdWr)' = v
      /\ \A j \in 1..Newest(RdWr)' : Val(RdWr, j)' \in Pair
      /\ \A y \in Loc \ {RdWr} : hist'[y] = hist[y]
      /\ \A u \in Thread : cur[u] \subseteq cur'[u]
      /\ \A c \in {Read, Written} : /\ Newest(c)' = Newest(c)
                                    /\ \A j : Val(c, j)' = Val(c, j)
      /\ \A m \in Bin : Cell(m)' = Cell(m)
      /\ \A n \in Value : Holding(n)' <=> Holding(n)
      /\ \A c \in {Read, Written}, m \in Bin : CarriesBin(c, m) => CarriesBin(c, m)'
  BY <1>1, <1>3, ClaimMade
<1>5. /\ pc'[t] = "awaitWrites" /\ \A u \in Thread \ {t} : pc'[u] = pc[u]
      /\ pc' \in [Thread -> Label]
  BY <1>1 DEF IInv, Types, Label
<1>6. /\ Reading' = Reading \cup {t} /\ Writing' = Writing /\ Claiming' = Claiming
      /\ t \notin Writing /\ t \notin Reading
  BY <1>1, <1>5 DEF Writing, Reading, Claiming
<1>7. /\ W \in Nat /\ R \in Nat /\ R < W /\ W <= R + t_size /\ R + 1 < CountRange
      /\ t_size \in Nat
  <2>1. /\ W \in Nat /\ R \in Nat /\ R <= W /\ W <= R + t_size /\ t_size \in Nat
        /\ W < CountRange /\ CountRange \in Nat
    BY Numbers DEF IInv, Counts
  <2>2. ~Empty(rdwr[t])
    BY <1>1 DEF IInv, Claims
  <2>3. W # R
    BY <1>2, <1>4, <2>2, FullEmpty DEF Wr, Rd
  <2> QED
    BY <2>1, <2>3
<1>8. W' = W /\ R' = R + 1
  <2>1. W' = Steps(v.wr) /\ R' = Steps(v.rd)
    BY <1>4 DEF W, R, Steps, Plus
  <2> QED
    BY <1>2, <1>3, <1>4, <1>7, <2>1, OneMore DEF Wr, Rd
<1>9. /\ \A u : Wr(u)' = Wr(u) /\ Rd(u)' = Rd(u)
      /\ OpenWrites' = OpenWrites /\ OpenReads' = OpenReads \cup {R}
  <2>1. \A u : Wr(u)' = Wr(u) /\ Rd(u)' = Rd(u)
    BY <1>1 DEF Wr, Rd
  <2> QED
    BY <1>4, <1>6, <2>1 DEF OpenReads, OpenWrites
<1>10. /\ \A u \in Writing : Wr(u) < W /\ Wr(u) \in Nat /\ Rd(u) <= R /\ Rd(u) \in Nat
       /\ \A u \in Reading : Rd(u) < R /\ Rd(u) \in Nat /\ Wr(u) <= W /\ Wr(u) \in Nat
  BY OpenCounts DEF IInv, Claims
<1>11. Types'
  BY <1>1, <1>4, <1>5 DEF IInv, Types
<1>12. Counts'
  <2>1. OpenReads' \subseteq 0..(R' - 1) /\ OpenWrites' \subseteq 0..(W' - 1)
    <3>1. OpenReads \subseteq 0..(R - 1) /\ OpenWrites \subseteq 0..(W - 1)
      BY DEF IInv, Counts
    <3> QED
      BY <1>7, <1>8, <1>9, <3>1
  <2>2. Cardinality(OpenReads') = Cardinality(OpenReads) + 1
    <3>1. R \notin OpenReads
      BY <1>7, <1>10 DEF OpenReads
    <3> QED
      BY <1>9, <3>1, OpenCounts, FS_AddElement
  <2>3. Newest(Read)' - 1 + Cardinality(OpenReads') = R'
    <3>1. Newest(Read) \in Nat /\ Newest(Read) - 1 + Cardinality(OpenReads) = R
      BY Lengths, Locations DEF IInv, Counts, Counters
    <3> QED
      BY <1>4, <1>8, <2>2, <3>1, OpenCounts
  <2>4. Newest(Written)' - 1 + Cardinality(OpenWrites') = W'
    BY <1>4, <1>8, <1>9 DEF IInv, Counts
  <2>5. \A x \in {Read, Written} : \A i \in 1..Newest(x)' : Steps(Val(x, i))' = i - 1
    BY <1>4 DEF IInv, Counts, Steps, Plus
  <2>6. IsFiniteSet(Claiming') /\ W' + Cardinality(Claiming') <= writes'
    BY <1>1, <1>6, <1>8 DEF IInv, Counts
  <2> QED
    BY <1>7, <1>8, <2>1, <2>3, <2>4, <2>5, <2>6 DEF Counts
<1>13. Claims'
  <2>1. /\ \A u \in Thread : pc'[u] = "claimBin" => ~Full(rdwr'[u])
        /\ \A u \in Thread : pc'[u] = "claimItem" => ~Empty(rdwr'[u])
    BY <1>1, <1>5 DEF IInv, Claims
  <2>2. \A u \in Writing : Rd(u) <= Wr(u) /\ Wr(u) < Rd(u) + t_size /\ Rd(u) <= R + 1
    <3>1. \A u \in Writing : Rd(u) <= Wr(u) /\ Wr(u) < Rd(u) + t_size
      BY DEF IInv, Claims
    <3> QED
      BY <1>7, <1>10, <3>1
  <2>3. \A u \in Reading' : Rd(u) < Wr(u) /\ Wr(u) <= Rd(u) + t_size /\ Wr(u) <= W
    BY <1>4, <1>6, <1>7 DEF IInv, Claims
  <2>4. \A u, w \in Writing : (Wr(u) = Wr(w) => u = w) /\ (Wr(u) < Wr(w) => Rd(u) <= Rd(w))
    BY DEF IInv, Claims
  <2>5. \A u \in Writing, w \in Reading' : Rd(u) <= Rd(w) <=> Wr(u) < Wr(w)
    <3>1. \A u \in Writing : Rd(u) <= R /\ Wr(u) < W
      BY <1>10
    <3> QED
      BY <1>4, <1>6, <3>1 DEF IInv, Claims
  <2>6. \A u, w \in Reading' : (Rd(u) = Rd(w) => u = w) /\ (Rd(u) < Rd(w) => Wr(u) <= Wr(w))
    <3>1. \A u, w \in Reading : (Rd(u) = Rd(w) => u = w) /\ (Rd(u) < Rd(w) => Wr(u) <= Wr(w))
      BY DEF IInv, Claims
    <3> QED
      BY <1>4, <1>6, <1>7, <1>10, <3>1
  <2> QED
    BY <1>6, <1>8, <1>9, <2>1, <2>2, <2>3, <2>4, <2>5, <2>6 DEF Claims
<1>14. Phases'
  <2>1. \A n : WritesWait(n) => WritesWait(n)'
    BY <1>5, <1>6, <1>9 DEF WritesWait, Writing
  <2>2. \A n : ReadsWait(n) \/ n = R => ReadsWait(n)'
    <3>1. \A u \in Reading : pc'[u] = pc[u]
      BY <1>5, <1>6 DEF Reading
    <3> QED
      BY <1>4, <1>5, <1>6, <1>9, <3>1 DEF ReadsWait
  <2>3. ASSUME NEW u \in Reading', NEW n \in Wr(u)..(W - 1)
        PROVE  WritesWait(n)'
    <3>1. u # t
      BY <1>4, <1>7, <2>3
    <3> QED
      BY <1>6, <2>1, <2>3, <3>1 DEF IInv, Phases
  <2>4. ASSUME NEW u \in Writing, NEW n \in Rd(u)..R
        PROVE  ReadsWait(n)'
    <3>1. n = R \/ n \in Rd(u)..(R - 1)
      BY <1>7, <1>10, <2>4
    <3> QED
      BY <2>2, <3>1 DEF IInv, Phases
  <2>5. (R + 1) - 1 = R
    BY <1>7
  <2>6. ASSUME NEW u \in Writing, NEW w \in Reading'
        PROVE  /\ pc'[u] \in {"write", "publish"} => Rd(u) <= Rd(w)
               /\ pc'[w] \in {"read", "consume"} => Wr(w) <= Wr(u)
    <3>1. pc'[u] = pc[u] /\ u # t
      BY <1>5, <1>6 DEF Writing
    <3>2. CASE w = t
      BY <1>4, <1>5, <1>10, <3>2
    <3>3. CASE w # t
      <4>1. pc'[w] = pc[w] /\ w \in Reading
        BY <1>5, <1>6, <3>3 DEF Reading
      <4> QED
        BY <3>1, <4>1 DEF IInv, Phases
    <3> QED
      BY <3>2, <3>3
  <2> QED
    BY <1>6, <1>8, <1>9, <2>3, <2>4, <2>5, <2>6 DEF Phases
<1>15. \A n : Stored(n)' <=> Stored(n)
  <2>1. \A u \in Writing : pc'[u] = pc[u]
    BY <1>5, <1>6 DEF Writing
  <2> QED
    BY <1>6, <1>8, <1>9, <2>1 DEF Stored
<1>16. \A n \in Nat : Unread(n)' <=> Unread(n)
  <2>1. \A n \in Nat : R <= n <=> R + 1 <= n \/ n = R
    BY <1>7
  <2> QED
    BY <1>8, <1>9, <2>1 DEF Unread
<1>17. \A n \in Value : Unread(Steps(n))' <=> Unread(Steps(n))
  BY <1>16, StepsType DEF Steps, Plus
<1>18. Window'
  <2>1. \A n \in Value : Stored(Steps(n))' <=> Stored(Steps(n))
    BY <1>15 DEF Steps, Plus
  <2> QED
    BY <1>1, <1>4, <1>5, <1>17, <2>1 DEF IInv, Window, Steps, Plus
<1>19. Handover'
  <2>1. /\ \A u \in Thread, x \in Loc : <<x, 1>> \in cur'[u]
        /\ \A u \in Thread : pc'[u] \in {"write", "publish"} => KnowsBin(u, WriteBin(u))'
        /\ \A u \in Thread : pc'[u] \in {"read", "consume"} => KnowsBin(u, ReadBin(u))'
    BY <1>1, <1>4, <1>5, HoldersKnow DEF Counters
  <2>2. \A n : Published(n)' => Published(n)
    BY <1>1, <1>5 DEF Published
  <2> QED
    BY <1>4, <1>17, <2>1, <2>2, BinType DEF IInv, Handover
<1> QED
  BY <1>4, <1>11, <1>12, <1>13, <1>14, <1>18, <1>19 DEF IInv

-----------------------------------------------------------------------------
(* The invariant holds in a queue that is empty, whatever it has been used *)
(* for before, and every step keeps it.                                    *)
LEMMA InitInvariant ==
  ASSUME Init
  PROVE  IInv
<1> DEFINE s == Started % CountRange
           init == [x \in Loc |-> CASE x = RdWr -> [rd |-> s, wr |-> s]
                                    [] x \in {Read, Written} -> s
                                    [] OTHER -> 0]
<1>1. /\ hist = [x \in Loc |-> <<Message(1, init[x], {}, "store")>>]
      /\ cur = [t \in Thread |-> {<<x, 1>> : x \in Loc}]
      /\ acq = [t \in Thread |-> {}] /\ rel = [t \in Thread |-> {}] /\ sc = {}
  BY DEF Init, MemInit
<1>2. /\ pc = [t \in Thread |-> "idle"] /\ rdwr = [t \in Thread |-> [rd |-> 0, wr |-> 0]]
      /\ writes = 0 /\ reads = 0 /\ got = [t \in Thread |-> 0]
  BY DEF Init
<1>3. s \in Value /\ Steps(s) = 0 /\ 0 \in Value /\ 0 \in Content /\ s \in Content
      /\ [rd |-> s, wr |-> s] \in Pair /\ [rd |-> s, wr |-> s] \in Content
  BY Ranges, StepsType DEF Value, Content, Pair
<1>4. init[RdWr] = [rd |-> s, wr |-> s] /\ init[Read] = s /\ init[Written] = s
  BY Locations DEF Counters
<1>5. \A k \in Bin : init[Element(k)] = 0
  BY Locations DEF Counters
<1>6. \A x \in Loc : init[x] \in Content
  BY <1>3
<1> HIDE DEF s, init
<1>7. \A x \in Loc : Message(1, init[x], {}, "store") \in Messages(Loc, Content)
  BY <1>6 DEF Message, Messages
<1>8. ASSUME NEW x \in Loc
      PROVE  /\ hist[x] \in Seq(Messages(Loc, Content)) /\ Len(hist[x]) = 1
             /\ Newest(x) = 1 /\ hist[x][1].id = 1 /\ Val(x, 1) = init[x]
             /\ Current(x) = init[x]
  <2>1. PICK m \in Messages(Loc, Content) : /\ m = Message(1, init[x], {}, "store")
                                            /\ hist[x] = <<m>>
    BY <1>1, <1>7
  <2>2. m.id = 1 /\ m.val = init[x]
    BY <2>1 DEF Message
  <2>3. hist[x] \in Seq(Messages(Loc, Content)) /\ Len(hist[x]) = 1 /\ hist[x][1] = m
    BY <2>1
  <2> QED
    BY <2>2, <2>3 DEF Newest, Val, Current
<1>9. W = 0 /\ R = 0
  BY <1>3, <1>4, <1>8, Locations DEF W, R, Counters
<1>10. Writing = {} /\ Reading = {} /\ Claiming = {} /\ OpenReads = {} /\ OpenWrites = {}
  BY <1>2 DEF Writing, Reading, Claiming, OpenReads, OpenWrites
<1>11. Types
  <2>1. MemType(Loc, Content)
    <3>1. hist \in [Loc -> Seq(Messages(Loc, Content))]
      BY <1>1, <1>8
    <3>2. cur \in [Thread -> SUBSET Events(Loc)]
      BY <1>1 DEF Events
    <3> QED
      BY <1>1, <1>8, <3>1, <3>2 DEF MemType
  <2>2. \A i \in 1..Newest(RdWr) : Val(RdWr, i) \in Pair
    BY <1>3, <1>4, <1>8, Locations DEF Counters
  <2>3. \A x \in {Read, Written} : \A i \in 1..Newest(x) : Val(x, i) \in Value
    BY <1>3, <1>4, <1>8, Locations DEF Counters
  <2>4. MaxWrites \in Nat /\ MaxReads \in Nat /\ CountRange \in Nat
    BY MPMCAssumption
  <2>5. [rd |-> 0, wr |-> 0] \in Pair
    BY <1>3 DEF Pair
  <2>6. pc \in [Thread -> Label] /\ rdwr \in [Thread -> Pair]
    BY <1>2, <2>5 DEF Label
  <2>7. got \in [Thread -> 0..CountRange] /\ writes \in 0..MaxWrites /\ reads \in 0..MaxReads
    BY <1>2, <2>4
  <2> QED
    BY <2>1, <2>2, <2>3, <2>6, <2>7 DEF Types
<1>12. Chain
  BY <1>8, Locations DEF Chain, Linear
<1>13. Counts
  <2>1. \A x \in {Read, Written} : \A i \in 1..Newest(x) : Steps(Val(x, i)) = i - 1
    BY <1>3, <1>4, <1>8, Locations DEF Counters
  <2>2. Newest(Read) = 1 /\ Newest(Written) = 1
    BY <1>8, Locations DEF Counters
  <2>3. IsFiniteSet({}) /\ Cardinality({}) = 0
    BY FS_EmptySet
  <2> QED
    BY <1>2, <1>9, <1>10, <2>1, <2>2, <2>3, Ranges DEF Counts
<1>14. Claims /\ Phases
  BY <1>2, <1>10 DEF Claims, Phases
<1>15. \A k \in Bin : Cell(k) = 0
  BY <1>5, <1>8, Locations DEF Cell
<1>16. \A v \in Value : ~Stored(Steps(v)) /\ ~Holding(v)
  BY <1>9, <1>15, StepsType, BinType DEF Stored, Holding
<1>17. Window
  BY <1>2, <1>15, <1>16 DEF Window
<1>18. Handover
  <2>1. \A k \in Bin : CarriesBin(Read, k)
    BY <1>8, Locations DEF CarriesBin, Carries
  <2>2. \A t \in Thread, x \in Loc : <<x, 1>> \in cur[t]
    BY <1>1
  <2> QED
    BY <1>2, <1>16, <2>1, <2>2 DEF Handover
<1> QED
  BY <1>11, <1>12, <1>13, <1>14, <1>17, <1>18 DEF IInv

LEMMA StepInvariant ==
  ASSUME IInv, [Next]_vars
  PROVE  IInv'
<1>1. ASSUME NEW t \in Thread, Write(t)
      PROVE  IInv'
  BY <1>1, PrepareLoadStep, PrepareClaimStep, AwaitReadsStep, WriteElementStep, PublishStep
     DEF Write
<1>2. ASSUME NEW t \in Thread, Fetch(t)
      PROVE  IInv'
  BY <1>2, FetchLoadStep, FetchClaimStep, AwaitWritesStep, ReadElementStep, ConsumeStep
     DEF Fetch
<1>3. CASE UNCHANGED vars
  <2>1. \A u \in Thread : cur[u] \subseteq cur'[u]
    BY <1>3 DEF vars
  <2>2. MemType(Loc, Content)'
    BY <1>3 DEF IInv, Types, MemType, vars
  <2>3. Writing' = Writing /\ Reading' = Reading /\ Claiming' = Claiming
    BY <1>3 DEF Writing, Reading, Claiming, vars
  <2>4. UNCHANGED <<hist, pc, rdwr, writes, reads, got>>
    BY <1>3 DEF vars
  <2> QED
    BY <2>1, <2>2, <2>3, <2>4, Quiet DEF IInv, Types, Counts, Claims
<1> QED
  BY <1>1, <1>2, <1>3 DEF Next, Terminated

(* IInv holds in every state the queue can reach.                          *)
THEOREM Invariance == Spec => []IInv
<1>1. Init => IInv
  BY InitInvariant
<1>2. IInv /\ [Next]_vars => IInv'
  BY StepInvariant
<1> QED
  BY <1>1, <1>2, PTL DEF Spec

(* TypeOK: the counters keep to their halves of m_rdwr, and at most t_size *)
(* more writes than reads have started, also when a counter has wrapped.   *)
THEOREM TypeCorrectness == Spec => []TypeOK
<1>1. ASSUME IInv
      PROVE  TypeOK
  <2>1. Current(RdWr) \in Pair
    BY <1>1, Numbers
  <2>2. Current(Read) \in Value /\ Current(Written) \in Value
    BY <1>1, Lengths, Locations DEF IInv, Types, Current, Counters
  <2>3. PICK a \in Value, b \in Value : a = Current(RdWr).wr /\ b = Current(RdWr).rd
    BY <1>1, Numbers
  <2>4. Steps(b) <= Steps(a) /\ Steps(a) <= Steps(b) + t_size
    BY <1>1, <2>3 DEF IInv, Counts, W, R
  <2>5. PICK d \in Nat : d = Steps(a) - Steps(b) /\ d <= t_size
    BY <2>4, StepsType, Ranges
  <2>6. a - b = d \/ a - b = d - CountRange \/ a - b = d + CountRange
    BY <2>5, StepsIs, Ranges
  <2>7. PICK x \in Nat : x = a + CountRange - b /\ x < 2 * CountRange
    BY Ranges
  <2>8. x % CountRange = IF x < CountRange THEN x ELSE x - CountRange
    BY <2>7, RemainderOfRange
  <2>9. x % CountRange = d
    BY <2>5, <2>6, <2>7, <2>8, Ranges
  <2>10. (Current(RdWr).wr + CountRange - Current(RdWr).rd) % CountRange \in 0..t_size
    BY <2>3, <2>5, <2>7, <2>9, Ranges
  <2> QED
    BY <2>1, <2>2, <2>10 DEF TypeOK, Pair, Value
<1> QED
  BY <1>1, Invariance, PTL

(* BinHasOneHolder: between the fetch and the consumption of a bin, and    *)
(* between its preparation and its publication, no other thread holds it.  *)
THEOREM Exclusion == Spec => []BinHasOneHolder
<1>1. ASSUME IInv
      PROVE  BinHasOneHolder
  BY <1>1, OneHolder DEF BinHasOneHolder
<1> QED
  BY <1>1, Invariance, PTL

(* BinIsHandedOver: who is given a bin has seen all that was written to it *)
(* and a writer all the reads of it, so that no access of the bin races    *)
(* with another, and a reader finds the item of its turn.                  *)
THEOREM HandOver == Spec => []BinIsHandedOver
<1>1. ASSUME IInv
      PROVE  BinIsHandedOver
  <2>1. ASSUME NEW t \in Thread, NEW k \in Bin, KnowsBin(t, k)
        PROVE  Synchronized(t, Element(k)) /\ Synchronized(t, ReadsOf(k))
    <3>1. ASSUME NEW x \in Loc, Knows(t, x)
          PROVE  Synchronized(t, x)
      BY <1>1, <3>1 DEF IInv, Chain, Linear, Knows, Synchronized, Upto, Event, Newest
    <3> QED
      BY <2>1, <3>1, Locations DEF KnowsBin
  <2>2. \A t \in Thread : ReadBin(t) \in Bin /\ WriteBin(t) \in Bin
    BY <1>1, Numbers, BinType DEF ReadBin, WriteBin
  <2> QED
    BY <1>1, <2>1, <2>2 DEF IInv, Handover, Window, BinIsHandedOver
<1> QED
  BY <1>1, Invariance, PTL
=============================================================================
