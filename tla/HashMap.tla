------------------------------ MODULE HashMap ------------------------------
(***************************************************************************)
(* concurrent-hashmap/hashmap.cc on the C11 memory: get() walks the list   *)
(* of a bucket without the mutex of its segment first.  The threads call   *)
(* put() and get() in any order, with every key.                           *)
(***************************************************************************)
EXTENDS C11Memory

CONSTANTS
  Key,
  capacity, CONCURRENCY_LEVEL,
  null,
  Uninit,   \* what new leaves in the fields of an entry
  Before,   \* the sequences of keys a driver puts before it makes the threads
  MaxPuts,  \* bounds: calls of put() and of get() in a run
  MaxGets

MaxBefore == CHOOSE n \in {Len(s) : s \in Before} : \A s \in Before : Len(s) <= n
Entry == 1..(MaxBefore + MaxPuts)

ASSUME HashMapAssumption ==
  /\ Key \subseteq Nat \ {0}
  /\ capacity \in Nat \ {0} /\ CONCURRENCY_LEVEL \in Nat \ {0}
  /\ capacity % CONCURRENCY_LEVEL = 0
  /\ null \notin Nat /\ Uninit \notin Nat /\ null # Uninit
  /\ \A s \in Before : s \in Seq(Key) /\ \A i, j \in 1..Len(s) : s[i] = s[j] => i = j
  /\ \E s \in Before : \A r \in Before : Len(r) <= Len(s)
  /\ MaxPuts \in Nat /\ MaxGets \in Nat
  /\ AcquireFences = FALSE

VARIABLES
  key,      \* thread -> the argument of its call
  value,    \* thread -> the value it puts
  e,        \* thread -> the local e, later newEntry
  first,    \* thread -> the local firstPtr
  old,      \* thread -> the local oldValue
  entries,  \* entries made so far
  puts,     \* calls of put() so far
  gets,     \* calls of get() so far
  answer    \* the call decided last, its key and what it returns

locals == <<key, value, e, first, old>>
vars == <<hist, cur, acq, rel, sc, pc, locals, entries, puts, gets, answer>>

Bucket == 0..(capacity - 1)
Segment == 0..(CONCURRENCY_LEVEL - 1)
Table(b) == <<"table", b>>
Mutex(s) == <<"segMutex", s>>
KeyOf(x) == <<"key", x>>
ValueOf(x) == <<"value", x>>
NextOf(x) == <<"next", x>>
Loc == {Table(b) : b \in Bucket} \cup {Mutex(s) : s \in Segment}
         \cup UNION {{KeyOf(x), ValueOf(x), NextOf(x)} : x \in Entry}

(* hashKey() is the identity, and capacity and CONCURRENCY_LEVEL are       *)
(* powers of two: & takes a remainder.                                     *)
BucketOf(k) == k % capacity
First(t) == Table(BucketOf(key[t]))
SegmentOf(k) == k % CONCURRENCY_LEVEL

(* Mutant of OrderGetFirst: injection #1.                                  *)
OrderGetFirstRelaxed == relaxed

OrderGetFirst == acquire
OrderGetValue == seq_cst
OrderNext == relaxed
OrderPutFirst == relaxed

(* Mutant of OrderPutValue: injection #3.                                  *)
OrderPutValueAcqRel == acq_rel

OrderPutValue == seq_cst
OrderPublish == release

(* The keys of before have the value 1.                                    *)
InitValue(before, x) ==
  LET made == 1..Len(before)
      older(i, b) == {j \in made : j < i /\ BucketOf(before[j]) = b}
      last(s) == IF s = {} THEN null ELSE CHOOSE j \in s : \A l \in s : l <= j
  IN  CASE x[1] = "segMutex" -> 0
        [] x[1] = "table" -> last(older(Len(before) + 1, x[2]))
        [] x[1] # "segMutex" /\ x[1] # "table" /\ x[2] \notin made -> Uninit
        [] x[1] = "key" /\ x[2] \in made -> before[x[2]]
        [] x[1] = "value" /\ x[2] \in made -> 1
        [] x[1] = "next" /\ x[2] \in made -> last(older(x[2], BucketOf(before[x[2]])))

Init ==
  /\ \E before \in Before :
       /\ MemInit([x \in Loc |-> InitValue(before, x)])
       /\ entries = Len(before)
  /\ pc = [t \in Thread |-> "idle"]
  /\ key = [t \in Thread |-> 0] /\ value = [t \in Thread |-> 0]
  /\ e = [t \in Thread |-> null] /\ first = [t \in Thread |-> null]
  /\ old = [t \in Thread |-> 0]
  /\ puts = 0 /\ gets = 0
  /\ answer = [op |-> "none", key |-> 0, value |-> 0]

(* The call of t is decided: it will return v.                             *)
Answer(op, t, v) == answer' = [op |-> op, key |-> key[t], value |-> v]

(* The call returns: its locals are gone.                                  *)
Return(t) ==
  /\ MoveTo(t, "idle")
  /\ key' = [key EXCEPT ![t] = 0] /\ value' = [value EXCEPT ![t] = 0]
  /\ e' = [e EXCEPT ![t] = null] /\ first' = [first EXCEPT ![t] = null]
  /\ old' = [old EXCEPT ![t] = 0]

Lock(t, k) ==
  LET m == Mutex(SegmentOf(k))
  IN  Val(m, Newest(m)) = 0 /\ ReadModifyWrite(t, m, Newest(m), 1, acquire)

Unlock(t) == Store(t, Mutex(SegmentOf(key[t])), 0, release)

(* A plain read of the key (and of the hash) of entry x: see TypeOK.       *)
KeyAt(x) == Val(KeyOf(x), Newest(KeyOf(x)))
Found(t) == e[t] # null /\ KeyAt(e[t]) = key[t]

(* e = e->next, at the end of the list with the answer found there.        *)
Advance(t, from, walk, end) ==
  /\ pc[t] = from
  /\ e[t] # null /\ ~Found(t)
  /\ \E i \in Readable(t, NextOf(e[t]), OrderNext) :
       /\ Load(t, NextOf(e[t]), i, OrderNext)
       /\ e' = [e EXCEPT ![t] = Val(NextOf(e[t]), i)]
       /\ MoveTo(t, IF e'[t] = null THEN end ELSE walk)
  /\ UNCHANGED <<key, value, first, old, entries, puts, gets>>

(* ---- put -------------------------------------------------------------- *)

Put_Lock(t) ==
  /\ Goto(t, "idle", "putFirst")
  /\ puts < MaxPuts
  /\ puts' = puts + 1
  /\ \E k \in Key : key' = [key EXCEPT ![t] = k] /\ Lock(t, k)
  /\ value' = [value EXCEPT ![t] = puts' + 1]
  /\ UNCHANGED <<e, first, old, entries, gets, answer>>

Put_LoadFirst(t) ==
  /\ pc[t] = "putFirst"
  /\ \E i \in Readable(t, First(t), OrderPutFirst) :
       /\ Load(t, First(t), i, OrderPutFirst)
       /\ first' = [first EXCEPT ![t] = Val(First(t), i)]
       /\ e' = [e EXCEPT ![t] = Val(First(t), i)]
       /\ MoveTo(t, IF e'[t] = null THEN "newEntry" ELSE "putWalk")
  /\ UNCHANGED <<key, value, old, entries, puts, gets, answer>>

Put_LoadValue(t) ==
  /\ Goto(t, "putWalk", "putValue")
  /\ Found(t)
  /\ \E i \in Readable(t, ValueOf(e[t]), relaxed) :
       /\ Load(t, ValueOf(e[t]), i, relaxed)
       /\ old' = [old EXCEPT ![t] = Val(ValueOf(e[t]), i)]
  /\ UNCHANGED <<key, value, e, first, entries, puts, gets, answer>>

Put_StoreValue(t) ==
  /\ Goto(t, "putValue", "unlock")
  /\ Store(t, ValueOf(e[t]), value[t], OrderPutValue)
  /\ Answer("put", t, old[t])
  /\ UNCHANGED locals
  /\ UNCHANGED <<entries, puts, gets>>

Put_NextEntry(t) == Advance(t, "putWalk", "putWalk", "newEntry") /\ UNCHANGED answer

(* new Entry(), its plain key and hash.                                    *)
Put_NewEntry(t) ==
  /\ Goto(t, "newEntry", "newValue")
  /\ entries' = entries + 1
  /\ e' = [e EXCEPT ![t] = entries']
  /\ Store(t, KeyOf(entries'), key[t], relaxed)
  /\ UNCHANGED <<key, value, first, old, puts, gets, answer>>

Put_NewValue(t) ==
  /\ Goto(t, "newValue", "newNext")
  /\ Store(t, ValueOf(e[t]), value[t], relaxed)
  /\ UNCHANGED locals
  /\ UNCHANGED <<entries, puts, gets, answer>>

Put_NewNext(t) ==
  /\ Goto(t, "newNext", "publish")
  /\ Store(t, NextOf(e[t]), first[t], relaxed)
  /\ UNCHANGED locals
  /\ UNCHANGED <<entries, puts, gets, answer>>

Put_Publish(t) ==
  /\ Goto(t, "publish", "unlock")
  /\ Store(t, First(t), e[t], OrderPublish)
  /\ Answer("put", t, 0)
  /\ UNCHANGED locals
  /\ UNCHANGED <<entries, puts, gets>>

(* ---- get -------------------------------------------------------------- *)

Get_LoadFirst(t) ==
  /\ pc[t] = "idle"
  /\ gets < MaxGets
  /\ gets' = gets + 1
  /\ \E k \in Key : \E i \in Readable(t, Table(BucketOf(k)), OrderGetFirst) :
       /\ key' = [key EXCEPT ![t] = k]
       /\ Load(t, Table(BucketOf(k)), i, OrderGetFirst)
       /\ first' = [first EXCEPT ![t] = Val(Table(BucketOf(k)), i)]
       /\ e' = [e EXCEPT ![t] = Val(Table(BucketOf(k)), i)]
       /\ MoveTo(t, IF e'[t] = null THEN "lock" ELSE "walk")
  /\ UNCHANGED <<value, old, entries, puts, answer>>

(* The value found without the mutex, unless it is 0.                      *)
Get_LoadValue(t) ==
  /\ pc[t] = "walk"
  /\ Found(t)
  /\ \E i \in Readable(t, ValueOf(e[t]), OrderGetValue) :
       /\ Load(t, ValueOf(e[t]), i, OrderGetValue)
       /\ IF Val(ValueOf(e[t]), i) # 0
          THEN Answer("get", t, Val(ValueOf(e[t]), i)) /\ Return(t)
          ELSE MoveTo(t, "lock") /\ UNCHANGED answer /\ UNCHANGED locals
  /\ UNCHANGED <<entries, puts, gets>>

Get_NextEntry(t) == Advance(t, "walk", "walk", "lock") /\ UNCHANGED answer

Get_Lock(t) ==
  /\ Goto(t, "lock", "recheck")
  /\ Lock(t, key[t])
  /\ UNCHANGED locals
  /\ UNCHANGED <<entries, puts, gets, answer>>

(* Walk again if there is an entry or the list has a new head.             *)
Get_Recheck(t) ==
  /\ pc[t] = "recheck"
  /\ \E i \in Readable(t, First(t), relaxed) :
       /\ Load(t, First(t), i, relaxed)
       /\ LET again == e[t] # null \/ first[t] # Val(First(t), i)
          IN  /\ MoveTo(t, IF again /\ Val(First(t), i) # null THEN "walkAgain" ELSE "unlock")
              /\ e' = IF again THEN [e EXCEPT ![t] = Val(First(t), i)] ELSE e
       /\ IF pc'[t] = "unlock" THEN Answer("get", t, 0) ELSE UNCHANGED answer
  /\ UNCHANGED <<key, value, first, old, entries, puts, gets>>

Get_LoadValueAgain(t) ==
  /\ Goto(t, "walkAgain", "unlock")
  /\ Found(t)
  /\ \E i \in Readable(t, ValueOf(e[t]), relaxed) :
       Load(t, ValueOf(e[t]), i, relaxed) /\ Answer("get", t, Val(ValueOf(e[t]), i))
  /\ UNCHANGED locals
  /\ UNCHANGED <<entries, puts, gets>>

Get_NextEntryAgain(t) ==
  /\ Advance(t, "walkAgain", "walkAgain", "unlock")
  /\ IF e'[t] = null THEN Answer("get", t, 0) ELSE UNCHANGED answer

(* The unlock of put() and of get(), and the return.                       *)
UnlockAndReturn(t) ==
  /\ pc[t] = "unlock"
  /\ Unlock(t)
  /\ Return(t)
  /\ UNCHANGED <<entries, puts, gets, answer>>

(* The threads have made all their calls.                                  *)
Terminated ==
  /\ \A t \in Thread : pc[t] = "idle"
  /\ puts = MaxPuts /\ gets = MaxGets
  /\ UNCHANGED vars

Put(t) ==
  \/ Put_Lock(t) \/ Put_LoadFirst(t) \/ Put_LoadValue(t) \/ Put_StoreValue(t) \/ Put_NextEntry(t)
  \/ Put_NewEntry(t) \/ Put_NewValue(t) \/ Put_NewNext(t) \/ Put_Publish(t)

Get(t) ==
  \/ Get_LoadFirst(t) \/ Get_LoadValue(t) \/ Get_NextEntry(t)
  \/ Get_Lock(t) \/ Get_Recheck(t) \/ Get_LoadValueAgain(t) \/ Get_NextEntryAgain(t)

Next == (\E t \in Thread : Put(t) \/ Get(t) \/ UnlockAndReturn(t)) \/ Terminated

Spec == Init /\ [][Next]_vars

-----------------------------------------------------------------------------
Current(x) == Val(x, Newest(x))

(* The entries that the table leads to.                                    *)
Linked ==
  ({Current(Table(b)) : b \in Bucket} \cup {Current(NextOf(x)) : x \in 1..entries}) \ {null, Uninit}

(* A key has one entry at most, however many puts of it race, and no       *)
(* thread follows a pointer to an entry whose fields it may still see      *)
(* uninitialised: the plain key and the next of the entry, and its first   *)
(* value, happen before every walk.                                        *)
TypeOK ==
  /\ entries \in Entry \cup {0}
  /\ \A x, y \in Linked : KeyAt(x) = KeyAt(y) => x = y
  /\ \A t \in Thread :
       /\ e[t] \in Entry \cup {null} /\ first[t] \in Entry \cup {null}
       /\ pc[t] \in {"walk", "walkAgain", "putWalk"} =>
            /\ e[t] \in Entry /\ KeyAt(e[t]) \in Key
            /\ Synchronized(t, KeyOf(e[t])) /\ Synchronized(t, NextOf(e[t]))
            /\ Uninit \notin {Val(ValueOf(e[t]), i) : i \in Readable(t, ValueOf(e[t]), relaxed)}

(* put() and get() happen at once, although get() looks without the mutex, *)
(* with all the keys in one order: an entry found by the first walk has    *)
(* its last value, and a key not found under the mutex is not there.       *)
Value == 1..(MaxPuts + 1)
Mapping ==
  LET linked == Linked
      with(k) == {x \in linked : KeyAt(x) = k}
  IN  [k \in Key |-> IF with(k) = {} THEN 0 ELSE Current(ValueOf(CHOOSE x \in with(k) : TRUE))]
Abstract == INSTANCE AbstractMap WITH map <- Mapping
ImplementsMap == Abstract!Spec
=============================================================================
