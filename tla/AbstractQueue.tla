--------------------------- MODULE AbstractQueue ---------------------------
(***************************************************************************)
(* The queue of the annotations of ms-queue/queue.c, spsc-bugfix/queue.cc: *)
(* items leave in the order they came, each of them once.                  *)
(***************************************************************************)
EXTENDS Naturals, Sequences, SequencesExt

CONSTANT Item

VARIABLES
  queue,  \* the items, front first
  out     \* what dequeue() has returned

Init == queue = <<>> /\ out = <<>>

(* The drivers enqueue every item once.                                    *)
Enqueue ==
  \E v \in Item \ (ToSet(queue) \cup ToSet(out)) :
    queue' = Append(queue, v) /\ UNCHANGED out

Dequeue ==
  /\ queue # <<>>
  /\ out' = Append(out, Head(queue))
  /\ queue' = Tail(queue)

Spec == Init /\ [][Enqueue \/ Dequeue]_<<queue, out>>
=============================================================================
