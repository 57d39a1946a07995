--------------------------- MODULE ChaseLevDeque ---------------------------
(***************************************************************************)
(* chase-lev-deque-bugfix/deque.c on the C11 memory.  The owner pushes and *)
(* takes in any order, the thieves steal, as note 1 of deque.c expects.    *)
(***************************************************************************)
EXTENDS C11Memory, FiniteSets

CONSTANTS
  Owner,         \* the thread that calls push() and take()
  SizeMax,       \* SIZE_MAX
  EMPTY,         \* what take() and steal() return without an item
  TakeWhenNew,   \* TRUE iff the program may take() before the first push()
  MaxPushes,     \* bounds: calls of push(), take() and steal() in a run
  MaxTakes,
  MaxSteals

ASSUME DequeAssumption ==
  /\ Owner \in Thread
  /\ SizeMax \in Nat /\ SizeMax > MaxPushes
  /\ TakeWhenNew \in BOOLEAN
  /\ MaxPushes \in Nat /\ MaxTakes \in Nat /\ MaxSteals \in Nat
  /\ AcquireFences = TRUE

VARIABLES
  idx,     \* the local t of steal() and of take()
  b,       \* the local b of push() and take()
  x,       \* the local x of steal() and take()
  arr,     \* the local a, an array
  sz,      \* the local size of resize() and sz of steal()
  copied,  \* the local i of resize()
  pushes,  \* calls of push() so far: the n-th pushes the item n
  takes,   \* calls of take() so far
  steals,  \* calls of steal() so far
  out,     \* the items returned so far
  won      \* thread -> its writes to top

dequeLocals == <<idx, b, x, arr, sz, copied, pushes, takes, steals, out, won>>
dequeVars == <<hist, cur, acq, rel, sc, pc, dequeLocals>>

Thief == Thread \ {Owner}

(* The array that create() installs has 2 slots, newArray has 8.           *)
Slots == [old |-> 2, new |-> 8]
Array == DOMAIN Slots
Top == <<"top">>
Bottom == <<"bottom">>
ArrayPtr == <<"array">>
Size(a) == <<"size", a>>
Buffer(a, i) == <<"buffer", a, i>>
DequeLoc ==
  {Top, Bottom, ArrayPtr} \cup {Size(a) : a \in Array}
    \cup UNION {{Buffer(a, i) : i \in 0..(Slots[a] - 1)} : a \in Array}

(* The memory orders, one per operation that has one to weaken.            *)

(* Mutant of OrderTakeFence: injection #1.                                 *)
OrderTakeFenceAcqRel == acq_rel

OrderTakeFence == seq_cst
OrderResizeArray == release
OrderPushTop == acquire
OrderPushFence == release
OrderStealFence == seq_cst
OrderStealBottom == acquire
OrderStealArray == acquire
OrderStealCAS == seq_cst

(* create(): an empty slot holds 0.                                        *)
DequeInit ==
  /\ MemInit([l \in DequeLoc |->
       CASE l = ArrayPtr -> "old"
         [] l \in {Size(a) : a \in Array} -> Slots[l[2]]
         [] OTHER -> 0])
  /\ pc = [t \in Thread |-> "idle"]
  /\ idx = [t \in Thread |-> 0]
  /\ b = 0
  /\ x = [t \in Thread |-> EMPTY]
  /\ arr = [t \in Thread |-> "old"]
  /\ sz = [t \in Thread |-> 0]
  /\ copied = 0
  /\ pushes = 0 /\ takes = 0 /\ steals = 0
  /\ out = <<>>
  /\ won = [t \in Thread |-> {}]

Plus(m, n) == (m + n) % (SizeMax + 1)
Minus(m, n) == (m + SizeMax + 1 - n) % (SizeMax + 1)

(* Only the owner writes to bottom, array and the arrays: a relaxed load   *)
(* of one of them in push() or take() returns what it stored last.         *)
Own(l) == Val(l, Newest(l))
OwnArray == Own(ArrayPtr)

Written(t) ==
  won[t] \cup (IF t = Owner THEN UNION {Upto(l, Newest(l)) : l \in DequeLoc \ {Top}} ELSE {})

WinTop(t, ord) ==
  /\ \E i \in Extendable(t, Top, ord) :
       /\ Val(Top, i) = idx[t]
       /\ ReadModifyWrite(t, Top, i, Plus(idx[t], 1), ord)
  /\ won' = [won EXCEPT ![t] = @ \cup {NextEvent(Top)}]
  /\ out' = Append(out, x[t])
  /\ UNCHANGED <<idx, b, x, arr, sz, copied, pushes, takes, steals>>

LoseTop(t) ==
  \E i \in Readable(t, Top, relaxed) :
    /\ Val(Top, i) # idx[t]
    /\ Load(t, Top, i, relaxed)

(* ---- push ------------------------------------------------------------- *)

(* The loads of bottom, of top and of the array, and the test for full.    *)
Push_LoadTop ==
  /\ pushes < MaxPushes
  /\ pushes' = pushes + 1
  /\ b' = Own(Bottom)
  /\ arr' = [arr EXCEPT ![Owner] = OwnArray]
  /\ \E i \in Readable(Owner, Top, OrderPushTop) :
       /\ Load(Owner, Top, i, OrderPushTop)
       /\ Goto(Owner, "idle",
               IF Minus(b', Val(Top, i)) > Own(Size(OwnArray)) - 1 THEN "resize" ELSE "store")
  /\ UNCHANGED <<idx, x, sz, copied, takes, steals, out, won>>

Resize_LoadTop ==
  /\ Goto(Owner, "resize", "resizeSize")
  /\ sz' = [sz EXCEPT ![Owner] = Own(Size(OwnArray))]
  /\ \E i \in Readable(Owner, Top, relaxed) :
       /\ Load(Owner, Top, i, relaxed)
       /\ copied' = Val(Top, i)
  /\ UNCHANGED <<idx, b, x, arr, pushes, takes, steals, out, won>>

Resize_StoreSize ==
  /\ Goto(Owner, "resizeSize", "copy")
  /\ Store(Owner, Size("new"), 2 * sz[Owner], relaxed)
  /\ UNCHANGED dequeLocals

Resize_Copy ==
  /\ pc[Owner] = "copy"
  /\ copied < Own(Bottom)
  /\ copied' = copied + 1
  /\ Store(Owner, Buffer("new", copied % (2 * sz[Owner])),
           Own(Buffer(arr[Owner], copied % sz[Owner])), relaxed)
  /\ UNCHANGED <<pc, idx, b, x, arr, sz, pushes, takes, steals, out, won>>

(* resize() installs the array and push() loads it again.                  *)
Resize_StoreArray ==
  /\ Goto(Owner, "copy", "store")
  /\ copied >= Own(Bottom)
  /\ Store(Owner, ArrayPtr, "new", OrderResizeArray)
  /\ arr' = [arr EXCEPT ![Owner] = "new"]
  /\ UNCHANGED <<idx, b, x, sz, copied, pushes, takes, steals, out, won>>

Push_StoreBuffer ==
  /\ Goto(Owner, "store", "pushFence")
  /\ Store(Owner, Buffer(arr[Owner], b % Own(Size(arr[Owner]))), pushes, relaxed)
  /\ UNCHANGED dequeLocals

Push_Fence ==
  /\ Goto(Owner, "pushFence", "pushBottom")
  /\ Fence(Owner, OrderPushFence, Written(Owner))
  /\ UNCHANGED dequeLocals

Push_StoreBottom ==
  /\ Goto(Owner, "pushBottom", "idle")
  /\ Store(Owner, Bottom, Plus(b, 1), relaxed)
  /\ UNCHANGED dequeLocals

(* ---- take ------------------------------------------------------------- *)

(* The greedy decrement of bottom.                                         *)
Take_StoreBottom ==
  /\ Goto(Owner, "idle", "takeFence")
  /\ takes < MaxTakes
  /\ TakeWhenNew \/ pushes > 0
  /\ takes' = takes + 1
  /\ b' = Minus(Own(Bottom), 1)
  /\ Store(Owner, Bottom, b', relaxed)
  /\ UNCHANGED <<idx, x, arr, sz, copied, pushes, steals, out, won>>

Take_Fence ==
  /\ Goto(Owner, "takeFence", "takeTop")
  /\ Fence(Owner, OrderTakeFence, Written(Owner))
  /\ UNCHANGED dequeLocals

(* What take() finds in the slot b of the array.                           *)
Back == Own(Buffer(OwnArray, b % Own(Size(OwnArray))))

(* Mutant of Take_LoadTop: the last item is not raced for.                 *)
TakeLastUnraced ==
  /\ pc[Owner] = "takeTop"
  /\ \E i \in Readable(Owner, Top, relaxed) :
       /\ Load(Owner, Top, i, relaxed)
       /\ idx' = [idx EXCEPT ![Owner] = Val(Top, i)]
       /\ x' = [x EXCEPT ![Owner] = IF Val(Top, i) <= b THEN Back ELSE EMPTY]
       /\ pc' = [pc EXCEPT ![Owner] = IF Val(Top, i) <= b THEN "idle" ELSE "restore"]
       /\ out' = IF Val(Top, i) <= b THEN Append(out, x'[Owner]) ELSE out
  /\ UNCHANGED <<b, arr, sz, copied, pushes, takes, steals, won>>

(* Mutant of Take_LoadTop: the last item counts as none.                   *)
TakeNeedsTwo ==
  /\ pc[Owner] = "takeTop"
  /\ \E i \in Readable(Owner, Top, relaxed) :
       /\ Load(Owner, Top, i, relaxed)
       /\ idx' = [idx EXCEPT ![Owner] = Val(Top, i)]
       /\ x' = [x EXCEPT ![Owner] = IF Val(Top, i) < b THEN Back ELSE EMPTY]
       /\ pc' = [pc EXCEPT ![Owner] = IF Val(Top, i) < b THEN "idle" ELSE "restore"]
       /\ out' = IF Val(Top, i) < b THEN Append(out, x'[Owner]) ELSE out
  /\ UNCHANGED <<b, arr, sz, copied, pushes, takes, steals, won>>

(* Take the back, race for the last item, or find the deque empty.         *)
Take_LoadTop ==
  /\ pc[Owner] = "takeTop"
  /\ \E i \in Readable(Owner, Top, relaxed) :
       /\ Load(Owner, Top, i, relaxed)
       /\ idx' = [idx EXCEPT ![Owner] = Val(Top, i)]
       /\ x' = [x EXCEPT ![Owner] = IF Val(Top, i) <= b THEN Back ELSE EMPTY]
       /\ pc' = [pc EXCEPT ![Owner] = CASE Val(Top, i) < b -> "idle"
                                        [] Val(Top, i) = b -> "takeCAS"
                                        [] Val(Top, i) > b -> "restore"]
       /\ out' = IF Val(Top, i) < b THEN Append(out, x'[Owner]) ELSE out
  /\ UNCHANGED <<b, arr, sz, copied, pushes, takes, steals, won>>

Take_WinCAS == Goto(Owner, "takeCAS", "restore") /\ WinTop(Owner, relaxed)

Take_LoseCAS ==
  /\ Goto(Owner, "takeCAS", "restore")
  /\ LoseTop(Owner)
  /\ x' = [x EXCEPT ![Owner] = EMPTY]
  /\ UNCHANGED <<idx, b, arr, sz, copied, pushes, takes, steals, out, won>>

(* Mutant of Take_RestoreBottom: the decrement is not undone.              *)
KeepDecrement ==
  /\ Goto(Owner, "restore", "idle")
  /\ UNCHANGED memVars
  /\ UNCHANGED dequeLocals

Take_RestoreBottom ==
  /\ Goto(Owner, "restore", "idle")
  /\ Store(Owner, Bottom, Plus(b, 1), relaxed)
  /\ UNCHANGED dequeLocals

(* ---- steal ------------------------------------------------------------ *)

Steal_LoadTop(t) ==
  /\ Goto(t, "idle", "stealFence")
  /\ steals < MaxSteals
  /\ steals' = steals + 1
  /\ \E i \in Readable(t, Top, relaxed) :
       /\ Load(t, Top, i, relaxed)
       /\ idx' = [idx EXCEPT ![t] = Val(Top, i)]
  /\ UNCHANGED <<b, x, arr, sz, copied, pushes, takes, out, won>>

Steal_Fence(t) ==
  /\ Goto(t, "stealFence", "stealBottom")
  /\ Fence(t, OrderStealFence, Written(t))
  /\ UNCHANGED dequeLocals

(* On an empty deque steal() returns at once.                              *)
Steal_LoadBottom(t) ==
  /\ \E i \in Readable(t, Bottom, OrderStealBottom) :
       /\ Load(t, Bottom, i, OrderStealBottom)
       /\ Goto(t, "stealBottom", IF idx[t] < Val(Bottom, i) THEN "stealArray" ELSE "idle")
  /\ UNCHANGED dequeLocals

Steal_LoadArray(t) ==
  /\ Goto(t, "stealArray", "stealSize")
  /\ \E i \in Readable(t, ArrayPtr, OrderStealArray) :
       /\ Load(t, ArrayPtr, i, OrderStealArray)
       /\ arr' = [arr EXCEPT ![t] = Val(ArrayPtr, i)]
  /\ UNCHANGED <<idx, b, x, sz, copied, pushes, takes, steals, out, won>>

Steal_LoadSize(t) ==
  /\ Goto(t, "stealSize", "stealBuffer")
  /\ \E i \in Readable(t, Size(arr[t]), relaxed) :
       /\ Load(t, Size(arr[t]), i, relaxed)
       /\ sz' = [sz EXCEPT ![t] = Val(Size(arr[t]), i)]
  /\ UNCHANGED <<idx, b, x, arr, copied, pushes, takes, steals, out, won>>

Steal_LoadBuffer(t) ==
  /\ Goto(t, "stealBuffer", "stealCAS")
  /\ LET slot == Buffer(arr[t], idx[t] % sz[t])
     IN  \E i \in Readable(t, slot, relaxed) :
           Load(t, slot, i, relaxed) /\ x' = [x EXCEPT ![t] = Val(slot, i)]
  /\ UNCHANGED <<idx, b, arr, sz, copied, pushes, takes, steals, out, won>>

Steal_WinCAS(t) == Goto(t, "stealCAS", "idle") /\ WinTop(t, OrderStealCAS)

(* ABORT *)
Steal_LoseCAS(t) == Goto(t, "stealCAS", "idle") /\ LoseTop(t) /\ UNCHANGED dequeLocals

(* The drivers have made all their calls.                                  *)
DequeTerminated ==
  /\ pushes = MaxPushes
  /\ \A t \in Thread : pc[t] = "idle"
  /\ UNCHANGED dequeVars

Push ==
  \/ Push_LoadTop \/ Resize_LoadTop \/ Resize_StoreSize \/ Resize_Copy \/ Resize_StoreArray
  \/ Push_StoreBuffer \/ Push_Fence \/ Push_StoreBottom

Take ==
  \/ Take_StoreBottom \/ Take_Fence \/ Take_LoadTop \/ Take_WinCAS \/ Take_LoseCAS
  \/ Take_RestoreBottom

Steal(t) ==
  \/ Steal_LoadTop(t) \/ Steal_Fence(t) \/ Steal_LoadBottom(t) \/ Steal_LoadArray(t)
  \/ Steal_LoadSize(t) \/ Steal_LoadBuffer(t) \/ Steal_WinCAS(t) \/ Steal_LoseCAS(t)

DequeNext == Push \/ Take \/ (\E t \in Thief : Steal(t)) \/ DequeTerminated

DequeSpec == DequeInit /\ [][DequeNext]_dequeVars

-----------------------------------------------------------------------------
(* The values the declarations of deque.h and the control flow allow; the  *)
(* indices never run away: the owner finds top at most one past bottom.    *)
DequeTypeOK ==
  /\ pc[Owner] \in {"idle", "resize", "resizeSize", "copy", "store", "pushFence", "pushBottom",
                    "takeFence", "takeTop", "takeCAS", "restore"}
  /\ \A t \in Thief :
       pc[t] \in {"idle", "stealFence", "stealBottom", "stealArray", "stealSize", "stealBuffer",
                  "stealCAS"}
  /\ \A t \in Thief : pc[t] = "stealBuffer" => sz[t] \in 1..Slots[arr[t]]
  /\ b \in 0..MaxPushes /\ Own(Bottom) \in 0..MaxPushes
  /\ Own(Top) \in 0..(Own(Bottom) + 1)

(* An item is returned once, by one call, and only if it was pushed; a     *)
(* slot that was never filled, or not yet copied, is never returned.       *)
EachItemOnce ==
  /\ \A i \in 1..Len(out) : out[i] \in 1..pushes
  /\ \A i, j \in 1..Len(out) : i # j => out[i] # out[j]

(* take() reports an empty deque only when the thieves have got everything *)
(* up to its bottom: the JustifyingPrecondition of take().                 *)
TakeFailsOnlyWhenStolen == pc[Owner] = "restore" => Own(Top) > b

(* The deque is what lies between top and bottom.  push() takes effect     *)
(* with the store of bottom, steal() with its compare_exchange, take()     *)
(* with its load of top or, on the last item, with its compare_exchange.   *)
Undecided == pc[Owner] \in {"takeFence", "takeTop", "takeCAS"}
End == IF Undecided \/ pc[Owner] = "restore" THEN Plus(b, 1) ELSE Own(Bottom)
Content ==
  [k \in 1..(IF Own(Top) < End THEN End - Own(Top) ELSE 0) |->
     Own(Buffer(OwnArray, (Own(Top) + k - 1) % Own(Size(OwnArray))))]
Abstract == INSTANCE AbstractDeque WITH
  deque <- Content,
  pushed <- IF pc[Owner] \in {"resize", "resizeSize", "copy", "store", "pushFence", "pushBottom"}
            THEN pushes - 1 ELSE pushes
ImplementsDeque == Abstract!Spec
=============================================================================
