----------------------------- MODULE SPSCQueue -----------------------------
(***************************************************************************)
(* spsc-bugfix/queue.cc on the C11 memory, composed with its eventcount:   *)
(* one thread enqueues the items 1, 2, ..., the other one dequeues and     *)
(* sleeps while the queue is empty.                                        *)
(***************************************************************************)
EXTENDS EventCount

CONSTANTS
  Producer, Consumer,
  null,
  Uninit,       \* what new leaves in the fields of a node
  MaxEnqueues,  \* bounds: calls of enqueue() and of dequeue() in a run
  MaxDequeues

ASSUME SPSCAssumption ==
  /\ Thread = {Producer, Consumer} /\ Producer # Consumer
  /\ CountRange \in Nat /\ CountRange > MaxEnqueues
  /\ MaxEnqueues \in Nat /\ MaxDequeues \in Nat
  /\ AcquireFences = FALSE
  /\ null \notin 0..MaxEnqueues /\ Uninit \notin 0..MaxEnqueues

VARIABLES
  head, tail,  \* the last and the first node of the list
  n,           \* the local n of enqueue() and of try_dequeue()
  deleted,     \* the nodes deleted so far
  enqueues,    \* calls of enqueue() so far
  dequeues,    \* calls of dequeue() so far
  out          \* the items returned

queueVars == <<head, tail, n, deleted, enqueues, dequeues, out>>
spscVars == <<hist, cur, acq, rel, sc, pc, ecVars, queueVars>>

(* The k-th enqueue() makes node k; no memory is used again.               *)
Node == 0..MaxEnqueues
NextOf(k) == <<"next", k>>
DataOf(k) == <<"data", k>>
SPSCLoc == EventCountLoc \cup {NextOf(k) : k \in Node} \cup {DataOf(k) : k \in Node}

(* Mutant of OrderLink: injection #1.                                      *)
OrderLinkRelaxed == relaxed

OrderLink == release
OrderTryDequeue == acquire

(* The queue is made with one node.                                        *)
SPSCInit ==
  /\ MemInit([x \in SPSCLoc |->
       IF x \in EventCountLoc THEN EventCountInit(x)
       ELSE IF x = NextOf(0) THEN null ELSE IF x = DataOf(0) THEN 0 ELSE Uninit])
  /\ pc = [t \in Thread |-> "idle"]
  /\ cmp = [t \in Thread |-> CountOf(0, FALSE)]
  /\ waiters = 0 /\ wakes = 0
  /\ head = 0 /\ tail = 0
  /\ n = [t \in Thread |-> 0]
  /\ deleted = {}
  /\ enqueues = 0 /\ dequeues = 0
  /\ out = <<>>

(* ---- enqueue ---------------------------------------------------------- *)

(* new node (data)                                                         *)
Enqueue_NewData ==
  /\ Goto(Producer, "idle", "newNext")
  /\ enqueues < MaxEnqueues
  /\ enqueues' = enqueues + 1
  /\ n' = [n EXCEPT ![Producer] = enqueues']
  /\ Store(Producer, DataOf(enqueues'), enqueues', relaxed)
  /\ UNCHANGED ecVars
  /\ UNCHANGED <<head, tail, deleted, dequeues, out>>

Enqueue_NewNext ==
  /\ Goto(Producer, "newNext", "link")
  /\ Store(Producer, NextOf(n[Producer]), null, seq_cst)
  /\ UNCHANGED ecVars
  /\ UNCHANGED queueVars

Enqueue_Link ==
  /\ Goto(Producer, "link", "signal")
  /\ Store(Producer, NextOf(head), n[Producer], OrderLink)
  /\ head' = n[Producer]
  /\ UNCHANGED ecVars
  /\ UNCHANGED <<tail, n, deleted, enqueues, dequeues, out>>

(* ---- dequeue ---------------------------------------------------------- *)

(* try_dequeue() looks for a node after tail.                              *)
TryDequeue(from, found, empty) ==
  /\ pc[Consumer] = from
  /\ \E i \in Readable(Consumer, NextOf(tail), OrderTryDequeue) :
       /\ Load(Consumer, NextOf(tail), i, OrderTryDequeue)
       /\ n' = [n EXCEPT ![Consumer] = Val(NextOf(tail), i)]
       /\ MoveTo(Consumer, IF Val(NextOf(tail), i) = null THEN empty ELSE found)
  /\ UNCHANGED ecVars
  /\ UNCHANGED <<head, tail, deleted, enqueues, out>>

Dequeue_First ==
  /\ pc[Consumer] = "idle" /\ dequeues < MaxDequeues
  /\ dequeues' = dequeues + 1
  /\ TryDequeue("idle", "data", "get")

Dequeue_AfterGet == TryDequeue("tryAgain", "data", "wait") /\ UNCHANGED dequeues
Dequeue_AfterWait == TryDequeue("awake", "data", "get") /\ UNCHANGED dequeues

(* Mutant of TryDequeue_Take: the node is deleted, not the one before it.  *)
DeleteNew ==
  /\ Goto(Consumer, "data", "idle")
  /\ \E i \in Readable(Consumer, DataOf(n[Consumer]), relaxed) :
       /\ Load(Consumer, DataOf(n[Consumer]), i, relaxed)
       /\ out' = Append(out, Val(DataOf(n[Consumer]), i))
  /\ deleted' = deleted \cup {n[Consumer]}
  /\ tail' = n[Consumer]
  /\ UNCHANGED ecVars
  /\ UNCHANGED <<head, n, enqueues, dequeues>>

(* Take the data of the node, which becomes the first; delete the old one. *)
TryDequeue_Take ==
  /\ Goto(Consumer, "data", "idle")
  /\ \E i \in Readable(Consumer, DataOf(n[Consumer]), relaxed) :
       /\ Load(Consumer, DataOf(n[Consumer]), i, relaxed)
       /\ out' = Append(out, Val(DataOf(n[Consumer]), i))
  /\ deleted' = deleted \cup {tail}
  /\ tail' = n[Consumer]
  /\ UNCHANGED ecVars
  /\ UNCHANGED <<head, n, enqueues, dequeues>>

Enqueue ==
  \/ Enqueue_NewData \/ Enqueue_NewNext \/ Enqueue_Link
  \/ Signal(Producer, "idle") /\ UNCHANGED queueVars

Dequeue ==
  \/ Dequeue_First \/ Dequeue_AfterGet \/ Dequeue_AfterWait \/ TryDequeue_Take
  \/ (Get(Consumer, "tryAgain") \/ Wait(Consumer, "awake")) /\ UNCHANGED queueVars

(* Once the producer has made its calls the consumer may sleep for ever.   *)
SPSCNext == Enqueue \/ Dequeue

SPSCSpec == SPSCInit /\ [][SPSCNext]_spscVars

(* The scheduler runs each thread that is in a call and not asleep, the    *)
(* mutex is given to a thread that keeps asking, and the weak              *)
(* compare_exchange succeeds in the end.  Nothing but a notification has   *)
(* to wake a sleeping thread.                                              *)
SPSCFairness ==
  /\ WF_spscVars(Enqueue_NewNext \/ Enqueue_Link)
  /\ WF_spscVars((Signal(Producer, "idle") /\ ~Signal_CASFails(Producer)) /\ UNCHANGED queueVars)
  /\ WF_spscVars(Dequeue_AfterGet \/ Dequeue_AfterWait \/ TryDequeue_Take)
  /\ WF_spscVars((Get(Consumer, "tryAgain") \/ (Wait(Consumer, "awake") /\ pc[Consumer] # "asleep"))
               /\ UNCHANGED queueVars)

SPSCFairSpec == SPSCSpec /\ SPSCFairness

-----------------------------------------------------------------------------
(* The list from tail to head is what has been enqueued and not dequeued.  *)
Current(x) == Val(x, Newest(x))
Linked == {k \in Node \ {0} : \E j \in Node : Current(NextOf(j)) = k}
Content == [k \in 1..(Cardinality(Linked) - Len(out)) |-> Current(DataOf(Len(out) + k))]

(* No thread touches a node that has been deleted or not been made: the    *)
(* fields dequeue() reads are initialised, and at the end head is tail,    *)
(* the assertion of the destructor.                                        *)
SPSCTypeOK ==
  /\ waiters \in Nat
  /\ pc[Consumer] = "asleep" => waiters > 0 \/ pc[Producer] = "notify"
  /\ head \in Node \ deleted /\ tail \in Node \ deleted
  /\ pc[Consumer] = "data" => n[Consumer] \in Node \ deleted
  /\ \A k \in 1..Len(out) : out[k] \in 1..enqueues
  /\ dequeues = enqueues /\ (\A t \in Thread : pc[t] = "idle") => head = tail

(* A dequeue() returns when the queue is not empty: no wake-up is lost     *)
(* between its look at the queue and its sleep.                            *)
DequeueReturns == pc[Consumer] # "idle" /\ Content # <<>> ~> pc[Consumer] = "idle"

(* First in, first out, each item once.                                    *)
Fifo == INSTANCE AbstractQueue WITH Item <- 1..MaxEnqueues, queue <- Content
ImplementsQueue == Fifo!Spec
=============================================================================
