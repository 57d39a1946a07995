------------------------------ MODULE C11Memory ------------------------------
(***************************************************************************)
(* The C11 atomics every benchmark of the suite is written with, as an     *)
(* operational memory.  Each location keeps its whole modification order   *)
(* hist[x]; a load may return any message that coherence does not hide     *)
(* from the loading thread, and a store may be placed at any position of   *)
(* the modification order that coherence leaves open, so an old value can  *)
(* still be read and a late store can lose to an earlier one.              *)
(*                                                                         *)
(* A write event is <<x, n>>: the n-th write to x to be executed.  A view  *)
(* is a set of write events.  cur[t] is what thread t can no longer        *)
(* overlook.  A message carries the view its writer released with it; an   *)
(* acquiring read of the message takes that view over.  rel[t] is the view *)
(* of t's last release fence, acq[t] what t read without acquiring since   *)
(* its last acquire fence, sc the view shared by the seq_cst operations.   *)
(*                                                                         *)
(* The model has no load buffering (program order and reads-from are       *)
(* jointly acyclic) and a relaxed store ends a release sequence, while a   *)
(* read-modify-write continues it, as in C++20.                            *)
(***************************************************************************)
EXTENDS Naturals, Sequences, SequencesExt

CONSTANTS
  Thread,         \* the threads of the program
  AcquireFences   \* TRUE iff the program executes an acquire (or seq_cst) fence

VARIABLES
  pc,    \* thread -> where it is
  hist,  \* location -> sequence of messages, in modification order
  cur,   \* thread -> view
  acq,   \* thread -> view
  rel,   \* thread -> view
  sc     \* view

memVars == <<hist, cur, acq, rel, sc>>

(* The memory orders, named as in include/unrelacy.h.                      *)
relaxed == "relaxed"
acquire == "acquire"
release == "release"
acq_rel == "acq_rel"
seq_cst == "seq_cst"

Acquiring == {acquire, acq_rel, seq_cst}
Releasing == {release, acq_rel, seq_cst}

(* kind tells a plain store from the write of a read-modify-write.         *)
Message(n, v, view, kind) == [id |-> n, val |-> v, view |-> view, kind |-> kind]

(* Every location starts with one message that every thread has seen: the  *)
(* initialisation precedes the creation of the threads.                    *)
MemInit(init) ==
  /\ hist = [x \in DOMAIN init |-> <<Message(1, init[x], {}, "store")>>]
  /\ cur = [t \in Thread |-> {<<x, 1>> : x \in DOMAIN init}]
  /\ acq = [t \in Thread |-> {}]
  /\ rel = [t \in Thread |-> {}]
  /\ sc = {}

Event(x, i) == <<x, hist[x][i].id>>
Val(x, i) == hist[x][i].val
Newest(x) == Len(hist[x])
Upto(x, i) == {Event(x, j) : j \in 1..i}

Seen(t, ord) == IF ord = seq_cst THEN cur[t] \cup sc ELSE cur[t]

(* The positions a load may read: nothing the thread has seen is newer.    *)
Readable(t, x, ord) ==
  {i \in 1..Newest(x) : \A j \in (i + 1)..Newest(x) : Event(x, j) \notin Seen(t, ord)}

(* The positions right after which a write may be placed: a write never    *)
(* separates a read-modify-write from the message it read.                 *)
Extendable(t, x, ord) ==
  {i \in Readable(t, x, ord) : i < Newest(x) => hist[x][i + 1].kind # "rmw"}

(* Thread t reads message i of x: the message and its predecessors become  *)
(* visible, and so does the view it carries if the read acquires.          *)
Observe(t, x, i, ord) ==
  cur[t] \cup Upto(x, i) \cup (IF ord \in Acquiring THEN hist[x][i].view ELSE {})

Pending(t, x, i, ord) ==
  IF AcquireFences /\ ord \notin Acquiring THEN acq[t] \cup hist[x][i].view ELSE acq[t]

Place(x, i, v, view, kind) ==
  hist' = [hist EXCEPT ![x] = InsertAt(@, i + 1, Message(Len(@) + 1, v, view, kind))]

NextEvent(x) == <<x, Newest(x) + 1>>

JoinSC(x, ord) == sc' = IF ord = seq_cst THEN sc \cup {NextEvent(x)} ELSE sc

(* What a store of t publishes.                                            *)
Released(t, ord) == IF ord \in Releasing THEN cur[t] ELSE rel[t]

(* What a read-modify-write of message i publishes: it continues the       *)
(* release sequence of the message it read.                                *)
Continued(t, x, i, ord) ==
  hist[x][i].view \cup (IF ord \in Releasing THEN Observe(t, x, i, ord) ELSE rel[t])

(* atomic_load_explicit: t reads message i of x.                           *)
Load(t, x, i, ord) ==
  /\ i \in Readable(t, x, ord)
  /\ cur' = [cur EXCEPT ![t] = Observe(t, x, i, ord)]
  /\ acq' = [acq EXCEPT ![t] = Pending(t, x, i, ord)]
  /\ UNCHANGED <<hist, rel, sc>>

(* atomic_store_explicit, at any place coherence leaves open.              *)
Store(t, x, v, ord) ==
  \E i \in Extendable(t, x, ord) :
    /\ Place(x, i, v, Released(t, ord), "store")
    /\ cur' = [cur EXCEPT ![t] = @ \cup Upto(x, i) \cup {NextEvent(x)}]
    /\ JoinSC(x, ord)
    /\ UNCHANGED <<acq, rel>>

(* atomic_fetch_*, atomic_exchange and a compare_exchange that succeeds:   *)
(* t reads message i of x and writes v right after it.                     *)
ReadModifyWrite(t, x, i, v, ord) ==
  /\ i \in Extendable(t, x, ord)
  /\ Place(x, i, v, Continued(t, x, i, ord), "rmw")
  /\ cur' = [cur EXCEPT ![t] = Observe(t, x, i, ord) \cup {NextEvent(x)}]
  /\ acq' = [acq EXCEPT ![t] = Pending(t, x, i, ord)]
  /\ JoinSC(x, ord)
  /\ UNCHANGED rel

(* atomic_thread_fence *)
ReleaseFence(t) ==
  /\ rel' = [rel EXCEPT ![t] = cur[t]]
  /\ UNCHANGED <<hist, cur, acq, sc>>

AcquireFence(t) ==
  /\ cur' = [cur EXCEPT ![t] = @ \cup acq[t]]
  /\ acq' = [acq EXCEPT ![t] = {}]
  /\ UNCHANGED <<hist, rel, sc>>

AcqRelFence(t) ==
  /\ cur' = [cur EXCEPT ![t] = @ \cup acq[t]]
  /\ acq' = [acq EXCEPT ![t] = {}]
  /\ rel' = [rel EXCEPT ![t] = cur[t] \cup acq[t]]
  /\ UNCHANGED <<hist, sc>>

(* A seq_cst fence makes visible what earlier seq_cst operations wrote and *)
(* what was written, in its thread, before an earlier seq_cst fence (C11   *)
(* 29.3p4-6).  It is not cumulative: mine, the writes t itself has made,   *)
(* is all it adds.                                                         *)
SeqCstFence(t, mine) ==
  LET view == cur[t] \cup acq[t] \cup sc
  IN  /\ cur' = [cur EXCEPT ![t] = view]
      /\ rel' = [rel EXCEPT ![t] = view]
      /\ acq' = [acq EXCEPT ![t] = {}]
      /\ sc' = sc \cup mine
      /\ UNCHANGED hist

Fence(t, ord, mine) ==
  CASE ord = relaxed -> UNCHANGED memVars
    [] ord = acquire -> AcquireFence(t)
    [] ord = release -> ReleaseFence(t)
    [] ord = acq_rel -> AcqRelFence(t)
    [] ord = seq_cst -> SeqCstFence(t, mine)

(* Thread t has seen every write to x: a plain access of x cannot race     *)
(* with a write of another thread.                                         *)
Synchronized(t, x) == Upto(x, Newest(x)) \subseteq cur[t]

-----------------------------------------------------------------------------
(* Thread t goes on at to, from anywhere or if it is at from.              *)
MoveTo(t, to) == pc' = [pc EXCEPT ![t] = to]
Goto(t, from, to) == pc[t] = from /\ pc' = [pc EXCEPT ![t] = to]
==============================================================================
