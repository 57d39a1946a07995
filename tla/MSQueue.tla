------------------------------ MODULE MSQueue ------------------------------
(***************************************************************************)
(* ms-queue/queue.c on the C11 memory: a linked queue of counted pointers  *)
(* whose nodes go back to the free list of the thread that dequeues them.  *)
(* The threads enqueue and dequeue in any order.                           *)
(***************************************************************************)
EXTENDS C11Memory, FiniteSets

CONSTANTS
  null,          \* the node index 0
  POISON,        \* POISON_IDX
  MAX_FREELIST,
  INITIAL_FREE,
  CountRange,    \* the values of the upper half of a pointer: 2^32
  MaxEnqueues,   \* bounds: calls of enqueue(), of dequeue() and of both in a run
  MaxDequeues,
  MaxCalls

ASSUME MSQueueAssumption ==
  /\ INITIAL_FREE \in 1..MAX_FREELIST /\ MAX_FREELIST \in Nat
  /\ CountRange \in Nat \ {0, 1}
  /\ MaxEnqueues \in Nat /\ MaxDequeues \in Nat
  /\ MaxCalls \in Nat /\ MaxCalls <= MaxEnqueues + MaxDequeues
  /\ AcquireFences = FALSE
  /\ IsFiniteSet(Thread)

VARIABLES
  loc,         \* thread -> the locals of enqueue() and dequeue()
  free_lists,
  enqueues,    \* calls of enqueue() so far: the n-th enqueues the item n
  dequeues,    \* calls of dequeue() so far
  out          \* what dequeue() has returned

msVars == <<hist, cur, acq, rel, sc, pc, loc, free_lists, enqueues, dequeues, out>>

(* Node 1, and the nodes each thread starts with.                          *)
Dummy == <<"dummy">>
Node == {Dummy} \cup (Thread \X (1..INITIAL_FREE))

ASSUME IndexAssumption == null \notin Node /\ POISON \notin Node /\ null # POISON

HeadPtr == <<"head">>
TailPtr == <<"tail">>
NextOf(n) == <<"next", n>>
Value(n) == <<"value", n>>
MSLoc == {HeadPtr, TailPtr} \cup {NextOf(n) : n \in Node} \cup {Value(n) : n \in Node}

MakePointer(ptr, count) == [ptr |-> ptr, count |-> count % CountRange]

(* The memory orders, one per operation that has one.                      *)

(* Mutant of OrderInitNext: known bug #1.                                  *)
OrderInitNextRelaxed == relaxed

OrderInitNext == release
OrderEnqTail == acquire
OrderEnqNext == acquire
OrderLink == release
OrderHelpNext == acquire
OrderHelpTail == release
OrderSwingTail == release
OrderDeqHead == acquire
OrderDeqTail == acquire

(* Mutant of OrderDeqNext: injection #8.                                   *)
OrderDeqNextRelaxed == relaxed

OrderDeqNext == acquire
OrderDeqHelpTail == release
OrderUnlink == release

NoLocals == [node |-> null, tmp |-> null, head |-> null, tail |-> null, next |-> null, val |-> 0]

(* init_queue()                                                            *)
MSInit ==
  /\ MemInit([x \in MSLoc |->
       CASE x \in {HeadPtr, TailPtr} -> MakePointer(Dummy, 0)
         [] x = NextOf(Dummy) -> MakePointer(null, 0)
         [] x[1] = "next" /\ x[2] # Dummy -> MakePointer(POISON, 0)
         [] x[1] = "value" -> 0])
  /\ pc = [t \in Thread |-> "idle"]
  /\ loc = [t \in Thread |-> NoLocals]
  /\ free_lists = [t \in Thread |->
       [i \in 1..MAX_FREELIST |-> IF i <= INITIAL_FREE THEN <<t, i>> ELSE null]]
  /\ enqueues = 0 /\ dequeues = 0
  /\ out = <<>>

Set(t, f, v) == loc' = [loc EXCEPT ![t] = [@ EXCEPT ![f] = v]]

(* t loads x into its local f.                                             *)
LoadInto(t, f, x, ord) ==
  \E i \in Readable(t, x, ord) : Load(t, x, i, ord) /\ Set(t, f, Val(x, i))

(* atomic_compare_exchange_strong: what a failure leaves in the expected   *)
(* value is loaded again before it is used.                                *)
CompareExchange(t, x, old, new, ord) ==
  \E i \in Extendable(t, x, ord) : Val(x, i) = old /\ ReadModifyWrite(t, x, i, new, ord)

Mismatch(t, x, old) ==
  \E i \in Readable(t, x, relaxed) : Val(x, i) # old /\ Load(t, x, i, relaxed)

TryExchange(t, x, old, new, ord) == CompareExchange(t, x, old, new, ord) \/ Mismatch(t, x, old)

(* Mutant of Successor: pointers are not counted.                          *)
SameCount(p, n) == MakePointer(n, p.count)

Successor(p, n) == MakePointer(n, p.count + 1)

(* The first slot of t's free list that holds one of Wanted, or 0.         *)
FirstSlot(t, Wanted) ==
  LET S == {i \in 1..MAX_FREELIST : free_lists[t][i] \in Wanted}
  IN  IF S = {} THEN 0 ELSE CHOOSE i \in S : \A j \in S : i <= j

(* ---- enqueue ---------------------------------------------------------- *)

(* new_node(): the caller has a free node left.                            *)
NewNode(t) ==
  LET i == FirstSlot(t, Node)
  IN  /\ i # 0
      /\ Set(t, "node", free_lists[t][i])
      /\ free_lists' = [free_lists EXCEPT ![t] = [@ EXCEPT ![i] = null]]

Enqueue_StoreValue(t) ==
  /\ Goto(t, "idle", "loadOwn")
  /\ enqueues < MaxEnqueues /\ enqueues + dequeues < MaxCalls
  /\ enqueues' = enqueues + 1
  /\ NewNode(t)
  /\ Store(t, Value(loc'[t].node), enqueues', relaxed)
  /\ UNCHANGED <<dequeues, out>>

Enqueue_LoadOwnNext(t) ==
  /\ Goto(t, "loadOwn", "initNext")
  /\ LoadInto(t, "tmp", NextOf(loc[t].node), relaxed)
  /\ UNCHANGED <<free_lists, enqueues, dequeues, out>>

(* set_ptr(&tmp, 0) keeps the count.                                       *)
Enqueue_StoreOwnNext(t) ==
  /\ Goto(t, "initNext", "loadTail")
  /\ Store(t, NextOf(loc[t].node), [loc[t].tmp EXCEPT !.ptr = null], OrderInitNext)
  /\ Set(t, "tmp", null)
  /\ UNCHANGED <<free_lists, enqueues, dequeues, out>>

Enqueue_LoadTail(t) ==
  /\ Goto(t, "loadTail", "loadNext")
  /\ LoadInto(t, "tail", TailPtr, OrderEnqTail)
  /\ UNCHANGED <<free_lists, enqueues, dequeues, out>>

Enqueue_LoadNext(t) ==
  /\ Goto(t, "loadNext", "recheckTail")
  /\ LoadInto(t, "next", NextOf(loc[t].tail.ptr), OrderEnqNext)
  /\ UNCHANGED <<free_lists, enqueues, dequeues, out>>

(* Link the node, help a tail that lags behind, or start over.             *)
Enqueue_RecheckTail(t) ==
  /\ pc[t] = "recheckTail"
  /\ \E i \in Readable(t, TailPtr, relaxed) :
       /\ Load(t, TailPtr, i, relaxed)
       /\ MoveTo(t, CASE Val(TailPtr, i) # loc[t].tail -> "loadTail"
                      [] Val(TailPtr, i) = loc[t].tail /\ loc[t].next.ptr = null -> "link"
                      [] OTHER -> "helpNext")
  /\ UNCHANGED <<loc, free_lists, enqueues, dequeues, out>>

(* The node is enqueued.                                                   *)
Enqueue_Link(t) ==
  /\ Goto(t, "link", "swingTail")
  /\ CompareExchange(t, NextOf(loc[t].tail.ptr), loc[t].next,
                     Successor(loc[t].next, loc[t].node), OrderLink)
  /\ UNCHANGED <<loc, free_lists, enqueues, dequeues, out>>

Enqueue_LinkFails(t) ==
  /\ Goto(t, "link", "helpNext")
  /\ Mismatch(t, NextOf(loc[t].tail.ptr), loc[t].next)
  /\ UNCHANGED <<loc, free_lists, enqueues, dequeues, out>>

Enqueue_HelpLoadNext(t) ==
  /\ Goto(t, "helpNext", "helpTail")
  /\ LoadInto(t, "next", NextOf(loc[t].tail.ptr), OrderHelpNext)
  /\ UNCHANGED <<free_lists, enqueues, dequeues, out>>

Enqueue_HelpTail(t) ==
  /\ Goto(t, "helpTail", "loadTail")
  /\ TryExchange(t, TailPtr, loc[t].tail, Successor(loc[t].tail, loc[t].next.ptr), OrderHelpTail)
  /\ UNCHANGED <<loc, free_lists, enqueues, dequeues, out>>

Enqueue_SwingTail(t) ==
  /\ Goto(t, "swingTail", "idle")
  /\ TryExchange(t, TailPtr, loc[t].tail, Successor(loc[t].tail, loc[t].node), OrderSwingTail)
  /\ loc' = [loc EXCEPT ![t] = NoLocals]
  /\ UNCHANGED <<free_lists, enqueues, dequeues, out>>

(* ---- dequeue ---------------------------------------------------------- *)

Dequeue_Call(t) ==
  /\ Goto(t, "idle", "loadHead")
  /\ dequeues < MaxDequeues /\ enqueues + dequeues < MaxCalls
  /\ dequeues' = dequeues + 1
  /\ UNCHANGED memVars
  /\ UNCHANGED <<loc, free_lists, enqueues, out>>

Dequeue_LoadHead(t) ==
  /\ Goto(t, "loadHead", "deqTail")
  /\ LoadInto(t, "head", HeadPtr, OrderDeqHead)
  /\ UNCHANGED <<free_lists, enqueues, dequeues, out>>

Dequeue_LoadTail(t) ==
  /\ Goto(t, "deqTail", "deqNext")
  /\ LoadInto(t, "tail", TailPtr, OrderDeqTail)
  /\ UNCHANGED <<free_lists, enqueues, dequeues, out>>

Dequeue_LoadNext(t) ==
  /\ Goto(t, "deqNext", "recheckHead")
  /\ LoadInto(t, "next", NextOf(loc[t].head.ptr), OrderDeqNext)
  /\ UNCHANGED <<free_lists, enqueues, dequeues, out>>

(* Mutant of Dequeue_RecheckHead: a tail that lags behind is not helped.    *)
EmptyAtTail(t) ==
  /\ pc[t] = "recheckHead"
  /\ \E i \in Readable(t, HeadPtr, relaxed) :
       /\ Load(t, HeadPtr, i, relaxed)
       /\ MoveTo(t, CASE Val(HeadPtr, i) # loc[t].head -> "loadHead"
                      [] Val(HeadPtr, i) = loc[t].head /\ loc[t].head.ptr # loc[t].tail.ptr -> "value"
                      [] OTHER -> "idle")
  /\ UNCHANGED <<loc, free_lists, enqueues, dequeues, out>>

(* Start over, find the queue empty, help a tail that lags behind, or read *)
(* the value of the first item.                                            *)
Dequeue_RecheckHead(t) ==
  /\ pc[t] = "recheckHead"
  /\ \E i \in Readable(t, HeadPtr, relaxed) :
       LET to == CASE Val(HeadPtr, i) # loc[t].head -> "loadHead"
                   [] Val(HeadPtr, i) = loc[t].head /\ loc[t].head.ptr # loc[t].tail.ptr -> "value"
                   [] OTHER -> IF loc[t].next.ptr = null THEN "idle" ELSE "deqHelp"
       IN  /\ Load(t, HeadPtr, i, relaxed)
           /\ MoveTo(t, to)
           /\ loc' = IF to = "idle" THEN [loc EXCEPT ![t] = NoLocals] ELSE loc
  /\ UNCHANGED <<free_lists, enqueues, dequeues, out>>

Dequeue_HelpTail(t) ==
  /\ Goto(t, "deqHelp", "loadHead")
  /\ TryExchange(t, TailPtr, loc[t].tail, Successor(loc[t].tail, loc[t].next.ptr),
                 OrderDeqHelpTail)
  /\ UNCHANGED <<loc, free_lists, enqueues, dequeues, out>>

Dequeue_LoadValue(t) ==
  /\ Goto(t, "value", "unlink")
  /\ LoadInto(t, "val", Value(loc[t].next.ptr), relaxed)
  /\ UNCHANGED <<free_lists, enqueues, dequeues, out>>

(* A full free list drops the node.                                        *)
Reclaim(t, node) ==
  LET i == FirstSlot(t, {null})
  IN  free_lists' =
        IF i = 0 THEN free_lists ELSE [free_lists EXCEPT ![t] = [@ EXCEPT ![i] = node]]

(* The item is dequeued.                                                   *)
Dequeue_Unlink(t) ==
  /\ Goto(t, "unlink", "idle")
  /\ CompareExchange(t, HeadPtr, loc[t].head, Successor(loc[t].head, loc[t].next.ptr), OrderUnlink)
  /\ out' = Append(out, loc[t].val)
  /\ Reclaim(t, loc[t].head.ptr)
  /\ loc' = [loc EXCEPT ![t] = NoLocals]
  /\ UNCHANGED <<enqueues, dequeues>>

Dequeue_UnlinkFails(t) ==
  /\ Goto(t, "unlink", "loadHead")
  /\ Mismatch(t, HeadPtr, loc[t].head)
  /\ UNCHANGED <<loc, free_lists, enqueues, dequeues, out>>

(* The drivers have made all their calls.                                  *)
MSTerminated ==
  /\ enqueues + dequeues = MaxCalls
  /\ \A t \in Thread : pc[t] = "idle"
  /\ UNCHANGED msVars

Enqueue(t) ==
  \/ Enqueue_StoreValue(t) \/ Enqueue_LoadOwnNext(t) \/ Enqueue_StoreOwnNext(t)
  \/ Enqueue_LoadTail(t) \/ Enqueue_LoadNext(t) \/ Enqueue_RecheckTail(t)
  \/ Enqueue_Link(t) \/ Enqueue_LinkFails(t) \/ Enqueue_HelpLoadNext(t)
  \/ Enqueue_HelpTail(t) \/ Enqueue_SwingTail(t)

Dequeue(t) ==
  \/ Dequeue_Call(t) \/ Dequeue_LoadHead(t) \/ Dequeue_LoadTail(t) \/ Dequeue_LoadNext(t)
  \/ Dequeue_RecheckHead(t) \/ Dequeue_HelpTail(t) \/ Dequeue_LoadValue(t)
  \/ Dequeue_Unlink(t) \/ Dequeue_UnlinkFails(t)

MSNext == (\E t \in Thread : Enqueue(t) \/ Dequeue(t)) \/ MSTerminated

MSSpec == MSInit /\ [][MSNext]_msVars

-----------------------------------------------------------------------------
Ptr(x) == Val(x, Newest(x)).ptr

(* The list: the node head points to, and what follows it.                 *)
ListNode[k \in 0..Cardinality(Node)] ==
  IF k = 0 THEN Ptr(HeadPtr)
  ELSE LET n == ListNode[k - 1] IN IF n \in Node THEN Ptr(NextOf(n)) ELSE null
Size == Cardinality({k \in 1..Cardinality(Node) : ListNode[k] \in Node})

(* The pointers the threads follow are nodes of the queue: no thread       *)
(* follows the null or the poison index, the assertion of dequeue(); no    *)
(* next field is poisoned again.                                           *)
MSTypeOK ==
  /\ \A t \in Thread :
       /\ pc[t] \in {"loadNext", "recheckTail", "link", "helpNext", "helpTail", "swingTail"}
            => loc[t].tail.ptr \in Node
       /\ pc[t] \in {"deqHelp", "value", "unlink"} => loc[t].next.ptr \in Node
       /\ pc[t] = "recheckHead" => loc[t].head.ptr \in Node /\ loc[t].next.ptr # POISON
       /\ pc[t] = "unlink" => loc[t].val \in 1..enqueues
  /\ Ptr(HeadPtr) \in Node /\ Ptr(TailPtr) \in Node

(* A node is in the list, in one slot of one free list, or in the hands of *)
(* an enqueue(), and in no two of them: reclaim() never frees a node that  *)
(* is in use or free.                                                      *)
Places(n) ==
  {<<"list", k>> : k \in {j \in 0..Size : ListNode[j] = n}}
    \cup {s \in Thread \X (1..MAX_FREELIST) : free_lists[s[1]][s[2]] = n}
    \cup {<<"new", t>> : t \in {u \in Thread : loc[u].node = n /\ pc[u] # "swingTail"}}
NodeInOnePlace == \A n \in Node : Cardinality(Places(n)) = 1

(* dequeue() returns false only if every item whose enqueue happens before *)
(* the return has been dequeued: its JustifyingPostcondition.              *)
EmptyIsJustified ==
  [][\A t \in Thread :
       pc[t] = "recheckHead" /\ pc'[t] = "idle" =>
         \A k \in 0..(Size - 1) :
           LET link == NextOf(ListNode[k]) IN Event(link, Newest(link)) \notin cur[t]]_msVars

(* First in, first out, each item once: an enqueue takes effect when it    *)
(* links the node, a dequeue when it moves head.                           *)
Queued == [k \in 1..Size |-> Val(Value(ListNode[k]), Newest(Value(ListNode[k])))]
Abstract == INSTANCE AbstractQueue WITH Item <- 1..MaxEnqueues, queue <- Queued
ImplementsQueue == Abstract!Spec
=============================================================================
